---------------------------- MODULE Spec2Model ----------------------------
(***************************************************************************)
(* A model of the nicehist daemon's store: the relational tables, the     *)
(* ingestion pipeline (store_command), delete_command, the frecency       *)
(* engine (frecent_add / frecent_query) and the fasd export/import of the *)
(* command-line client.                                                   *)
(*                                                                         *)
(* Strings are sequences of one-character strings, so that the parser and *)
(* the matchers are computed character by character as the code does.     *)
(* An Option<T> is a sequence of length 0 (None) or 1 (Some).             *)
(* A REAL rank is a fixed-point integer in units of 1/RankScale.           *)
(***************************************************************************)
EXTENDS Integers, Sequences, FiniteSets, TLC

(* ------------------------------ bounds -------------------------------- *)

\* Number of store operations (calls that reach the database) in one run.
MaxOps == 3

\* The clock runs from 0 to MaxTime.
MaxTime == 1

\* Fixed-point resolution of a REAL rank: rank 1.0 is RankScale units.
RankScale == 100

(* ------------------------------ options ------------------------------- *)

None == <<>>

Some(x) == <<x>>

IsSome(o) == Len(o) = 1

Unwrap(o) == o[1]

(* ------------------------------ strings ------------------------------- *)

\* char::to_lowercase / eq_ignore_ascii_case on the letters the model uses.
to_lowercase_char(c) ==
    CASE c = "A" -> "a"
      [] c = "B" -> "b"
      [] c = "G" -> "g"
      [] c = "L" -> "l"
      [] c = "P" -> "p"
      [] OTHER -> c

to_lowercase(s) == [i \in 1..Len(s) |-> to_lowercase_char(s[i])]

IsWhitespace(c) == c \in {" ", "\t"}

RECURSIVE trim_start(_)
trim_start(s) ==
    IF s # <<>> /\ IsWhitespace(Head(s)) THEN trim_start(Tail(s)) ELSE s

RECURSIVE trim_end(_)
trim_end(s) ==
    IF s # <<>> /\ IsWhitespace(s[Len(s)])
    THEN trim_end(SubSeq(s, 1, Len(s) - 1))
    ELSE s

\* str::trim
trim(s) == trim_end(trim_start(s))

\* str::starts_with for a string prefix
starts_with(s, p) == Len(p) <= Len(s) /\ SubSeq(s, 1, Len(p)) = p

\* str::ends_with for a single character
ends_with_char(s, c) == s # <<>> /\ s[Len(s)] = c

\* str::contains for a single character
contains_char(s, c) == \E i \in 1..Len(s) : s[i] = c

\* slice::join(" ")
RECURSIVE join_space(_)
join_space(toks) ==
    IF toks = <<>> THEN <<>>
    ELSE IF Len(toks) = 1 THEN toks[1]
    ELSE toks[1] \o <<" ">> \o join_space(Tail(toks))

(* ------------------------------- parser ------------------------------- *)

\* The tokenizer's loop: i is the next character (1-based), st the state
\* [tokens, in_single_quote, in_double_quote, token_start]; token_start 0
\* is None.
RECURSIVE tokenize_loop(_, _, _)
tokenize_loop(cmd, i, st) ==
    IF i > Len(cmd)
    THEN IF st.token_start # 0
         THEN Append(st.tokens, SubSeq(cmd, st.token_start, Len(cmd)))
         ELSE st.tokens
    ELSE LET c == cmd[i]
             started == IF st.token_start = 0 THEN i ELSE st.token_start
         IN  IF c = "'" /\ ~st.in_double_quote
             THEN tokenize_loop(cmd, i + 1,
                      [st EXCEPT !.in_single_quote = ~st.in_single_quote,
                                 !.token_start = started])
             ELSE IF c = "\"" /\ ~st.in_single_quote
             THEN tokenize_loop(cmd, i + 1,
                      [st EXCEPT !.in_double_quote = ~st.in_double_quote,
                                 !.token_start = started])
             ELSE IF c \in {" ", "\t"} /\ ~st.in_single_quote /\ ~st.in_double_quote
             THEN IF st.token_start # 0
                  THEN tokenize_loop(cmd, i + 1,
                           [st EXCEPT !.tokens = Append(st.tokens,
                                          SubSeq(cmd, st.token_start, i - 1)),
                                      !.token_start = 0])
                  ELSE tokenize_loop(cmd, i + 1, st)
             ELSE tokenize_loop(cmd, i + 1, [st EXCEPT !.token_start = started])

tokenize(cmd) ==
    tokenize_loop(cmd, 1, [tokens |-> <<>>, in_single_quote |-> FALSE,
                           in_double_quote |-> FALSE, token_start |-> 0])

SUBCOMMAND_PROGRAMS ==
    { <<"g","i","t">>, <<"d","o","c","k","e","r">>,
      <<"d","o","c","k","e","r","-","c","o","m","p","o","s","e">>,
      <<"k","u","b","e","c","t","l">>, <<"n","p","m">>, <<"y","a","r","n">>,
      <<"p","n","p","m">>, <<"c","a","r","g","o">>, <<"r","u","s","t","u","p">>,
      <<"g","o">>, <<"p","i","p">>, <<"p","o","e","t","r","y">>,
      <<"c","o","n","d","a">>, <<"b","r","e","w">>, <<"a","p","t">>,
      <<"s","y","s","t","e","m","c","t","l">>,
      <<"j","o","u","r","n","a","l","c","t","l">>, <<"a","w","s">>,
      <<"g","c","l","o","u","d">>, <<"a","z">>,
      <<"t","e","r","r","a","f","o","r","m">>, <<"m","a","k","e">>,
      <<"c","m","a","k","e">>, <<"g","r","a","d","l","e">>, <<"m","v","n">>,
      <<"d","o","t","n","e","t">>, <<"m","i","x">>, <<"b","u","n","d","l","e">> }

\* The list lower-cased, for eq_ignore_ascii_case.
SubcommandProgramsLower == {to_lowercase(p) : p \in SUBCOMMAND_PROGRAMS}

parse_command(cmd) ==
    LET tokens == tokenize(trim(cmd))
    IN  IF tokens = <<>>
        THEN [program |-> <<>>, subcommand |-> None, args |-> <<>>, full |-> cmd]
        ELSE LET program == tokens[1]
                 has_subcommand ==
                     to_lowercase(program) \in SubcommandProgramsLower
             IN  IF has_subcommand /\ Len(tokens) > 1
                    /\ ~starts_with(tokens[2], <<"-">>)
                 THEN [program |-> program, subcommand |-> Some(tokens[2]),
                       args |-> SubSeq(tokens, 3, Len(tokens)), full |-> cmd]
                 ELSE [program |-> program, subcommand |-> None,
                       args |-> SubSeq(tokens, 2, Len(tokens)), full |-> cmd]

\* Faulty variant: any trailing whitespace makes the command partial.
is_partial_whitespace(parsed) ==
    parsed.full # <<>> /\ IsWhitespace(parsed.full[Len(parsed.full)])

\* ParsedCommand::is_partial
is_partial(parsed) == ends_with_char(parsed.full, " ")

ValueFlags ==
    { <<"-","m">>, <<"-","b">>, <<"-","-","m","e","s","s","a","g","e">>,
      <<"-","-","b","r","a","n","c","h">>, <<"-","f">>,
      <<"-","-","f","i","l","e">> }

MessageFlags == { <<"-","m">>, <<"-","-","m","e","s","s","a","g","e">> }

RECURSIVE learnable_loop(_, _, _)
learnable_loop(args, i, learnable) ==
    IF i > Len(args) THEN learnable
    ELSE LET arg == args[i]
         IN  IF starts_with(arg, <<"-">>)
             THEN learnable_loop(args, i + 1, learnable)
             ELSE IF i > 1 /\ args[i - 1] \in ValueFlags
             THEN IF args[i - 1] \notin MessageFlags
                  THEN learnable_loop(args, i + 1, Append(learnable, arg))
                  ELSE learnable_loop(args, i + 1, learnable)
             ELSE IF Len(arg) > 100
             THEN learnable_loop(args, i + 1, learnable)
             ELSE learnable_loop(args, i + 1, Append(learnable, arg))

\* Faulty variant: every argument that is not a flag is learnable.
extract_learnable_args_all(parsed) ==
    SelectSeq(parsed.args, LAMBDA arg : ~starts_with(arg, <<"-">>))

extract_learnable_args(parsed) == learnable_loop(parsed.args, 1, <<>>)


(* ------------------------------ the store ----------------------------- *)

\* hostname::get(); the daemon runs on one host.
Hostname == <<"h">>

MaxOf(S) == CHOOSE x \in S : \A y \in S : y <= x

\* SQLite's rowid for INTEGER PRIMARY KEY: one more than the largest in use.
last_insert_rowid(table) ==
    IF table = {} THEN 1 ELSE MaxOf({r.id : r \in table}) + 1

\* The tables of SCHEMA_V1 the daemon writes, all empty.
EmptyDb ==
    [commands |-> {}, places |-> {}, history |-> {}, ngrams_2 |-> {},
     ngrams_3 |-> {}, parsed_commands |-> {}, arg_patterns |-> {},
     frecent_paths |-> {}]

\* A connection executing statements: db is the database, n counts down to
\* the statement that fails (0: none fails), err is set once a statement has
\* returned an error ('?' propagates it: nothing later runs).
Conn(db, n) == [db |-> db, n |-> n, err |-> FALSE]

\* conn.execute(...)?: the statement either fails, leaving the database as
\* it is (autocommit: earlier statements stay), or yields newdb.
Execute(s, newdb) ==
    IF s.err THEN s
    ELSE IF s.n = 1 THEN [s EXCEPT !.err = TRUE, !.n = 0]
    ELSE [db |-> newdb, n |-> IF s.n > 1 THEN s.n - 1 ELSE 0, err |-> FALSE]

command_id_of(db, argv) ==
    IF \E c \in db.commands : c.argv = argv
    THEN (CHOOSE c \in db.commands : c.argv = argv).id
    ELSE 0

place_id_of(db, host, dir) ==
    IF \E p \in db.places : p.host = host /\ p.dir = dir
    THEN (CHOOSE p \in db.places : p.host = host /\ p.dir = dir).id
    ELSE 0

\* Faulty variant: the INSERT without the lookup before it.
get_or_create_command_no_lookup(s, argv) ==
    Execute(s,
        [s.db EXCEPT !.commands =
            @ \cup {[id |-> last_insert_rowid(@), argv |-> argv]}])

get_or_create_command(s, argv) ==
    Execute(s,
        IF \E c \in s.db.commands : c.argv = argv
        THEN s.db
        ELSE [s.db EXCEPT !.commands =
                 @ \cup {[id |-> last_insert_rowid(@), argv |-> argv]}])

get_or_create_place(s, host, dir) ==
    Execute(s,
        IF \E p \in s.db.places : p.host = host /\ p.dir = dir
        THEN s.db
        ELSE [s.db EXCEPT !.places =
                 @ \cup {[id |-> last_insert_rowid(@), host |-> host, dir |-> dir]}])

\* Rust's % on i64 truncates toward zero: the remainder has the sign of a.
RustRem(a, b) == IF a >= 0 THEN a % b ELSE 0 - ((0 - a) % b)

\* Rust's / on i64 truncates toward zero.
RustDiv(a, b) == IF a >= 0 THEN a \div b ELSE 0 - ((0 - a) \div b)

time_bucket_of(start_time) == RustDiv(RustRem(start_time, 86400), 3600)

insert_history(s, command_id, place_id, start_time, exit_status) ==
    Execute(s,
        [s.db EXCEPT !.history =
            @ \cup {[id |-> last_insert_rowid(@), command_id |-> command_id,
                     place_id |-> place_id, start_time |-> start_time,
                     exit_status |-> exit_status,
                     time_bucket |-> time_bucket_of(start_time)]}])

\* Faulty variant: INSERT OR REPLACE, which starts the row again at frequency 1.
update_bigram_replace(s, prev_id, cmd_id, t) ==
    Execute(s,
        [s.db EXCEPT !.ngrams_2 =
            {g \in @ : ~(g.prev_command_id = prev_id /\ g.command_id = cmd_id)}
            \cup {[prev_command_id |-> prev_id, command_id |-> cmd_id,
                   frequency |-> 1, last_used |-> t]}])

update_bigram(s, prev_id, cmd_id, t) ==
    Execute(s,
        [s.db EXCEPT !.ngrams_2 =
            IF \E g \in @ : g.prev_command_id = prev_id /\ g.command_id = cmd_id
            THEN {IF g.prev_command_id = prev_id /\ g.command_id = cmd_id
                  THEN [g EXCEPT !.frequency = @ + 1, !.last_used = t]
                  ELSE g : g \in @}
            ELSE @ \cup {[prev_command_id |-> prev_id, command_id |-> cmd_id,
                          frequency |-> 1, last_used |-> t]}])

update_trigram(s, prev2_id, prev1_id, cmd_id, t) ==
    Execute(s,
        [s.db EXCEPT !.ngrams_3 =
            IF \E g \in @ : /\ g.prev2_command_id = prev2_id
                            /\ g.prev1_command_id = prev1_id
                            /\ g.command_id = cmd_id
            THEN {IF /\ g.prev2_command_id = prev2_id
                     /\ g.prev1_command_id = prev1_id
                     /\ g.command_id = cmd_id
                  THEN [g EXCEPT !.frequency = @ + 1, !.last_used = t]
                  ELSE g : g \in @}
            ELSE @ \cup {[prev2_command_id |-> prev2_id,
                          prev1_command_id |-> prev1_id, command_id |-> cmd_id,
                          frequency |-> 1, last_used |-> t]}])

\* str::get(..50): the first 50 bytes, None when the string is shorter.
get_to_50(str) == IF Len(str) >= 50 THEN Some(SubSeq(str, 1, 50)) ELSE None

\* INSERT OR REPLACE on the primary key command_id.
store_parsed_command(s, command_id, cmd) ==
    LET parsed == parse_command(cmd)
    IN  IF parsed.program = <<>> THEN s
        ELSE Execute(s,
                [s.db EXCEPT !.parsed_commands =
                    {r \in @ : r.command_id # command_id}
                    \cup {[command_id |-> command_id, program |-> parsed.program,
                           subcommand |-> parsed.subcommand,
                           args_hash |-> get_to_50(join_space(parsed.args))]}])

\* Whether row r conflicts with the new values on UNIQUE(program, subcommand,
\* arg_value, place_id): SQLite holds a NULL distinct from every value,
\* another NULL included, so a row with a NULL column conflicts with none.
arg_pattern_conflict(r, program, subcommand, arg, place_id) ==
    /\ r.program = program
    /\ IsSome(subcommand) /\ r.subcommand = subcommand
    /\ r.arg_value = arg
    /\ IsSome(place_id) /\ r.place_id = place_id

upsert_arg_pattern(s, program, subcommand, arg, place_id, t) ==
    Execute(s,
        [s.db EXCEPT !.arg_patterns =
            IF \E r \in @ : arg_pattern_conflict(r, program, subcommand, arg, place_id)
            THEN {IF arg_pattern_conflict(r, program, subcommand, arg, place_id)
                  THEN [r EXCEPT !.frequency = @ + 1, !.last_used = t]
                  ELSE r : r \in @}
            ELSE @ \cup {[id |-> last_insert_rowid(@), program |-> program,
                          subcommand |-> subcommand, arg_value |-> arg,
                          frequency |-> 1, last_used |-> t,
                          place_id |-> place_id]}])

RECURSIVE arg_patterns_loop(_, _, _, _, _, _)
arg_patterns_loop(s, parsed, learnable, i, place_id, t) ==
    IF i > Len(learnable) \/ s.err THEN s
    ELSE LET arg == learnable[i]
         IN  IF Len(arg) < 2 \/ Len(arg) > 100
             THEN arg_patterns_loop(s, parsed, learnable, i + 1, place_id, t)
             ELSE arg_patterns_loop(
                      upsert_arg_pattern(s, parsed.program, parsed.subcommand,
                                         arg, place_id, t),
                      parsed, learnable, i + 1, place_id, t)

store_arg_patterns(s, cmd, place_id, t) ==
    LET parsed == parse_command(cmd)
    IN  arg_patterns_loop(s, parsed, extract_learnable_args(parsed), 1, place_id, t)

(* --------------------------- frecency: bump --------------------------- *)

\* The aging threshold 2000.0 of frecent_add_with_conn.
AgingLimit == 2000

RECURSIVE SumRank(_)
SumRank(rows) ==
    IF rows = {} THEN 0
    ELSE LET r == CHOOSE x \in rows : TRUE
         IN  r.rank + SumRank(rows \ {r})

MaxInt(a, b) == IF a >= b THEN a ELSE b

\* rank + 1.0 / MAX(rank, 0.01)
bump_rank(rank) ==
    rank + (RankScale * RankScale) \div MaxInt(rank, RankScale \div 100)

\* rank * 0.9 replaced by rank: an aging pass that decays nothing.
age_rank_none(rank) == rank

\* rank * 0.9
age_rank(rank) == (rank * 9) \div 10

\* Faulty variant: the import overwrites rank and last_access of the row it
\* finds.
frecent_upsert_import_overwrite(s, path, path_type, rank, t) ==
    Execute(s,
        [s.db EXCEPT !.frecent_paths =
            IF \E r \in @ : r.path = path /\ r.path_type = path_type
            THEN {IF r.path = path /\ r.path_type = path_type
                  THEN [r EXCEPT !.rank = rank,
                                 !.last_access = t,
                                 !.access_count = @ + 1]
                  ELSE r : r \in @}
            ELSE @ \cup {[id |-> last_insert_rowid(@), path |-> path,
                          path_type |-> path_type, rank |-> rank,
                          last_access |-> t, access_count |-> 1]}])

\* The import-mode upsert: ON CONFLICT(path, path_type) keeps the larger
\* rank and the larger last_access.
frecent_upsert_import(s, path, path_type, rank, t) ==
    Execute(s,
        [s.db EXCEPT !.frecent_paths =
            IF \E r \in @ : r.path = path /\ r.path_type = path_type
            THEN {IF r.path = path /\ r.path_type = path_type
                  THEN [r EXCEPT !.rank = MaxInt(@, rank),
                                 !.last_access = MaxInt(@, t),
                                 !.access_count = @ + 1]
                  ELSE r : r \in @}
            ELSE @ \cup {[id |-> last_insert_rowid(@), path |-> path,
                          path_type |-> path_type, rank |-> rank,
                          last_access |-> t, access_count |-> 1]}])

\* The normal-mode upsert: a new row starts at rank 1.0.
frecent_upsert_normal(s, path, path_type, t) ==
    Execute(s,
        [s.db EXCEPT !.frecent_paths =
            IF \E r \in @ : r.path = path /\ r.path_type = path_type
            THEN {IF r.path = path /\ r.path_type = path_type
                  THEN [r EXCEPT !.rank = bump_rank(@),
                                 !.last_access = t,
                                 !.access_count = @ + 1]
                  ELSE r : r \in @}
            ELSE @ \cup {[id |-> last_insert_rowid(@), path |-> path,
                          path_type |-> path_type, rank |-> RankScale,
                          last_access |-> t, access_count |-> 1]}])

\* UPDATE frecent_paths SET rank = rank * 0.9 WHERE path_type = ?1
aging_update(s, path_type) ==
    Execute(s,
        [s.db EXCEPT !.frecent_paths =
            {IF r.path_type = path_type THEN [r EXCEPT !.rank = age_rank(@)] ELSE r
             : r \in @}])

\* Faulty variant: the aging step deletes no row.
aging_prune_none(s, path_type) == Execute(s, s.db)

\* DELETE FROM frecent_paths WHERE path_type = ?1 AND rank < 1.0
aging_prune(s, path_type) ==
    Execute(s,
        [s.db EXCEPT !.frecent_paths =
            {r \in @ : ~(r.path_type = path_type /\ r.rank < RankScale)}])

\* Faulty variant: the aging step never runs.
aging_fires_never(s, path_type) == FALSE

\* Whether the aging step runs: the SUM query's failure is swallowed
\* (unwrap_or(0.0)), and then no aging happens in this call.
aging_fires(s, path_type) ==
    /\ ~s.err
    /\ s.n # 1
    /\ SumRank({r \in s.db.frecent_paths : r.path_type = path_type})
           > AgingLimit * RankScale

\* The connection after the SUM query (one statement, never an error).
after_sum_query(s) ==
    IF s.err THEN s ELSE [s EXCEPT !.n = IF s.n > 0 THEN s.n - 1 ELSE 0]

\* The upsert of frecent_add_with_conn: import mode when a rank is given.
frecent_upsert(s, path, path_type, rank_override, now_) ==
    IF IsSome(rank_override)
    THEN frecent_upsert_import(s, path, path_type, Unwrap(rank_override), now_)
    ELSE frecent_upsert_normal(s, path, path_type, now_)

\* t is chrono_lite_timestamp() at the call.
frecent_add_with_conn(s, path, path_type, rank_override, timestamp_override, t) ==
    LET now_ == IF IsSome(timestamp_override) THEN Unwrap(timestamp_override) ELSE t
        s1 == frecent_upsert(s, path, path_type, rank_override, now_)
        s2 == after_sum_query(s1)
    IN  IF aging_fires(s1, path_type)
        THEN aging_prune(aging_update(s2, path_type), path_type)
        ELSE s2

(* --------------------------- frecency: query -------------------------- *)

\* The age thresholds of frecency_score, in seconds.
Hour == 3600
Day == 86400
Week == 604800

\* Faulty variant: the age thresholds are inclusive.
frecency_score_inclusive(rank, last_access, t) ==
    LET age == MaxInt(t - last_access, 0)
        weight == IF age <= Hour THEN 6
                  ELSE IF age <= Day THEN 4
                  ELSE IF age <= Week THEN 2
                  ELSE 1
    IN  rank * weight

\* rank * weight, the weight chosen by the age of the last access.
frecency_score(rank, last_access, t) ==
    LET age == MaxInt(t - last_access, 0)
        weight == IF age < Hour THEN 6
                  ELSE IF age < Day THEN 4
                  ELSE IF age < Week THEN 2
                  ELSE 1
    IN  rank * weight

\* haystack[from..].find(needle): the index (from 1) of the first occurrence
\* of needle at or after position from; 0 when there is none.
RECURSIVE str_find(_, _, _)
str_find(haystack, from, needle) ==
    IF from + Len(needle) - 1 > Len(haystack) THEN 0
    ELSE IF SubSeq(haystack, from, from + Len(needle) - 1) = needle THEN from
    ELSE str_find(haystack, from + 1, needle)

\* The loop of matches_ordered_substring over the terms; search_from is the
\* index (from 1) where the next search starts.
RECURSIVE ordered_loop(_, _, _, _, _)
ordered_loop(haystack, terms, i, search_from, case_insensitive) ==
    IF i > Len(terms) THEN TRUE
    ELSE LET needle == IF case_insensitive THEN to_lowercase(terms[i]) ELSE terms[i]
             pos == str_find(haystack, search_from, needle)
         IN  IF pos = 0 THEN FALSE
             ELSE ordered_loop(haystack, terms, i + 1, pos + Len(needle),
                               case_insensitive)

\* Faulty variant: every term is searched from the start of the path, so the
\* order of the terms is not looked at.
matches_any_order(path, terms, case_insensitive) ==
    \A i \in 1..Len(terms) :
        ordered_loop(IF case_insensitive THEN to_lowercase(path) ELSE path,
                     <<terms[i]>>, 1, 1, case_insensitive)

matches_ordered_substring(path, terms, case_insensitive) ==
    ordered_loop(IF case_insensitive THEN to_lowercase(path) ELSE path,
                 terms, 1, 1, case_insensitive)

\* path_chars.next() until a character equal to tc: the rest of the path
\* after that character, or None when the path runs out.
RECURSIVE fuzzy_advance(_, _)
fuzzy_advance(path_chars, tc) ==
    IF path_chars = <<>> THEN None
    ELSE IF Head(path_chars) = tc THEN Some(Tail(path_chars))
    ELSE fuzzy_advance(Tail(path_chars), tc)

\* The characters of all the terms, in order, consume the one iterator.
RECURSIVE fuzzy_loop(_, _)
fuzzy_loop(path_chars, term_chars) ==
    IF term_chars = <<>> THEN TRUE
    ELSE LET rest == fuzzy_advance(path_chars, Head(term_chars))
         IN  IF ~IsSome(rest) THEN FALSE
             ELSE fuzzy_loop(Unwrap(rest), Tail(term_chars))

RECURSIVE concat_lower(_)
concat_lower(terms) ==
    IF terms = <<>> THEN <<>>
    ELSE to_lowercase(Head(terms)) \o concat_lower(Tail(terms))

\* Faulty variant: the path iterator starts again for every term.
matches_fuzzy_reset(path, terms) ==
    \A i \in 1..Len(terms) :
        fuzzy_loop(to_lowercase(path), to_lowercase(terms[i]))

matches_fuzzy(path, terms) ==
    fuzzy_loop(to_lowercase(path), concat_lower(terms))

\* SELECT ... FROM frecent_paths [WHERE path_type = ..] ORDER BY rank DESC:
\* the orders the statement may return the rows in (rows of equal rank come
\* in any order).
RECURSIVE candidate_orders(_)
candidate_orders(rows) ==
    IF rows = {} THEN {<<>>}
    ELSE UNION {{<<r>> \o o : o \in candidate_orders(rows \ {r})}
                : r \in {x \in rows : \A y \in rows : x.rank >= y.rank}}

\* The rows the query of frecent_query selects: a filter other than "f"
\* selects the directories.
candidate_rows(db, path_type) ==
    IF IsSome(path_type)
    THEN LET pt == IF Unwrap(path_type) = "f" THEN "f" ELSE "d"
         IN  {r \in db.frecent_paths : r.path_type = pt}
    ELSE db.frecent_paths

FrecencyResult(r, raw, t) ==
    [path |-> r.path, path_type |-> r.path_type,
     score |-> frecency_score(r.rank, r.last_access, t),
     rank |-> IF raw THEN Some(r.rank) ELSE None,
     last_access |-> IF raw THEN Some(r.last_access) ELSE None]

\* The candidates of the three tiers appended, whether or not an earlier
\* tier had hits.
tier_hits_no_stop(candidates, terms) ==
    LET T1(r) == matches_ordered_substring(r.path, terms, FALSE)
        T2(r) == matches_ordered_substring(r.path, terms, TRUE)
        T3(r) == matches_fuzzy(r.path, terms)
    IN  SelectSeq(candidates, T1) \o SelectSeq(candidates, T2)
        \o SelectSeq(candidates, T3)

\* Three-tier matching: a tier runs only when the results are still empty.
tier_hits(candidates, terms) ==
    LET T1(r) == matches_ordered_substring(r.path, terms, FALSE)
        T2(r) == matches_ordered_substring(r.path, terms, TRUE)
        T3(r) == matches_fuzzy(r.path, terms)
        r1 == SelectSeq(candidates, T1)
        r2 == IF r1 = <<>> THEN SelectSeq(candidates, T2) ELSE r1
    IN  IF r2 = <<>> THEN SelectSeq(candidates, T3) ELSE r2

\* Vec::sort_by with b.score.partial_cmp(&a.score): a stable sort, highest
\* score first.  sort_insert puts x after the elements whose score is not
\* lower.
RECURSIVE sort_insert(_, _)
sort_insert(sorted, x) ==
    IF sorted = <<>> THEN <<x>>
    ELSE IF Head(sorted).score >= x.score
         THEN <<Head(sorted)>> \o sort_insert(Tail(sorted), x)
         ELSE <<x>> \o sorted

RECURSIVE sort_by_score(_)
sort_by_score(results) ==
    IF results = <<>> THEN <<>>
    ELSE sort_insert(sort_by_score(SubSeq(results, 1, Len(results) - 1)),
                     results[Len(results)])

\* Vec::truncate
\* A truncate that drops nothing.
truncate_none(seq, limit) == seq

truncate(seq, limit) ==
    IF Len(seq) > limit THEN SubSeq(seq, 1, limit) ELSE seq

\* Faulty variant: the results are cut at the limit in the order of the
\* SELECT, without the sort by score.
frecent_query_unsorted(candidates, p, t) ==
    LET hits == IF p.terms = <<>> THEN candidates ELSE tier_hits(candidates, p.terms)
        results == [i \in 1..Len(hits) |-> FrecencyResult(hits[i], p.raw, t)]
    IN  truncate(results, p.limit)

\* p is a FrecentQueryParams [terms, path_type, limit, raw]; candidates is
\* the order the SELECT returned the rows in; t is the clock.
frecent_query(candidates, p, t) ==
    LET hits == IF p.terms = <<>> THEN candidates ELSE tier_hits(candidates, p.terms)
        results == [i \in 1..Len(hits) |-> FrecencyResult(hits[i], p.raw, t)]
    IN  truncate(sort_by_score(results), p.limit)

(* ---------------------- frecency: export and import ------------------- *)

\* The limit cmd_export_fasd asks for.
ExportLimit == 100000

\* cmd_export_fasd writes "{path}|{rank}|{last_access}" for every result
\* with a non-empty path; the path_type of the result is not written.  A
\* line is kept as its three fields: Rust prints an f64 and an i64 with all
\* the digits needed to read the same value back.
RECURSIVE fasd_lines(_)
fasd_lines(results) ==
    IF results = <<>> THEN <<>>
    ELSE LET e == Head(results)
             path == e.path
             rank == IF IsSome(e.rank) THEN Unwrap(e.rank) ELSE 0
             last_access == IF IsSome(e.last_access) THEN Unwrap(e.last_access) ELSE 0
         IN  (IF path # <<>>
              THEN <<[path |-> path, rank |-> rank, last_access |-> last_access]>>
              ELSE <<>>)
             \o fasd_lines(Tail(results))

\* cmd_import_fasd on one line: line.trim() strips the white space in front
\* of the path, rsplitn(3, '|') takes the last two fields from the right;
\* is_dir is what the filesystem says of the path.  The result is the
\* frecent_add request sent.
import_request(line, is_dir) ==
    [path |-> trim_start(line.path),
     path_type |-> IF is_dir THEN "d" ELSE "f",
     rank |-> Some(line.rank),
     timestamp |-> Some(line.last_access)]

(* ----------------------- frecency: ingestion hook --------------------- *)

\* std::env::var("HOME")
Home == Some(<<"/", "r">>)

\* str::replacen('~', home, 1) on a string that starts with '~'
expand_tilde(arg, home) == home \o Tail(arg)

\* PathBuf::from(cwd).join(arg) for a relative arg
path_join(cwd, arg) ==
    IF ends_with_char(cwd, "/") THEN cwd \o arg ELSE cwd \o <<"/">> \o arg

\* What std::fs::metadata can say of a path: a directory, a file, something
\* else that exists, or an error (the path does not exist).
FsKinds == {"d", "f", "o", "x"}

\* The loop over parsed.args; kinds[i] is what the filesystem says of the
\* path made from args[i].
RECURSIVE frecent_args_loop(_, _, _, _, _, _, _)
frecent_args_loop(s, args, i, count, cwd, kinds, t) ==
    IF i > Len(args) \/ count >= 5 \/ s.err THEN s
    ELSE LET arg == args[i]
             path == IF starts_with(arg, <<"~">>) THEN expand_tilde(arg, Unwrap(Home))
                     ELSE IF starts_with(arg, <<"/">>) THEN arg
                     ELSE path_join(cwd, arg)
         IN  IF starts_with(arg, <<"-">>)
             THEN frecent_args_loop(s, args, i + 1, count, cwd, kinds, t)
             ELSE IF ~contains_char(arg, "/") /\ ~contains_char(arg, ".") /\ Len(arg) > 50
             THEN frecent_args_loop(s, args, i + 1, count, cwd, kinds, t)
             ELSE IF starts_with(arg, <<"~">>) /\ ~IsSome(Home)
             THEN frecent_args_loop(s, args, i + 1, count, cwd, kinds, t)
             ELSE IF kinds[i] = "x"
             THEN frecent_args_loop(s, args, i + 1, count, cwd, kinds, t)
             ELSE IF kinds[i] \in {"d", "f"}
             THEN frecent_args_loop(
                      frecent_add_with_conn(s, path, kinds[i], None, None, t),
                      args, i + 1, count + 1, cwd, kinds, t)
             ELSE frecent_args_loop(s, args, i + 1, count + 1, cwd, kinds, t)

extract_frecent_paths(s, cmd, cwd, kinds, t) ==
    frecent_args_loop(frecent_add_with_conn(s, cwd, "d", None, None, t),
                      parse_command(cmd).args, 1, 0, cwd, kinds, t)

(* ------------------------------ prediction ---------------------------- *)

\* Scores (f64 in the code) are kept in units of 1/ScoreScale, rounded
\* down.
ScoreScale == 10000

\* 10000 * ln(1), ln(1.25), ln(1.5), ln(1.75), ln(2)
LnQuarters == <<0, 2231, 4055, 5596, 6931>>

\* 10000 * exp(-k * ln(2) / 4) for k = 0 .. 4
ExpQuarters == <<10000, 8409, 7071, 5946, 5000>>

\* f64::ln of a / b, for a >= b > 0: the powers of two are taken out and
\* the rest is interpolated between the quarters.
RECURSIVE ln_ratio(_, _)
ln_ratio(a, b) ==
    IF a >= 2 * b THEN LnQuarters[5] + ln_ratio(a, 2 * b)
    ELSE LET y == ((a - b) * 4 * ScoreScale) \div b
             seg == y \div ScoreScale
             within == y - seg * ScoreScale
         IN  LnQuarters[seg + 1]
             + ((LnQuarters[seg + 2] - LnQuarters[seg + 1]) * within) \div ScoreScale

\* (freq as f64).ln().max(0.0) / 10.0, for a count freq >= 1
ln_freq_score(freq) == MaxInt(ln_ratio(freq, 1), 0) \div 10

MinInt(a, b) == IF a <= b THEN a ELSE b

\* f64::exp of -x, for x >= 0 in units of 1/ScoreScale.
RECURSIVE exp_neg(_)
exp_neg(x) ==
    IF x >= 20 * LnQuarters[5] THEN 0
    ELSE IF x >= LnQuarters[5] THEN exp_neg(x - LnQuarters[5]) \div 2
    ELSE LET y == (4 * x * ScoreScale) \div LnQuarters[5]
             seg == y \div ScoreScale
             within == y - seg * ScoreScale
         IN  ExpQuarters[seg + 1]
             - ((ExpQuarters[seg + 1] - ExpQuarters[seg + 2]) * within) \div ScoreScale

\* age_days / 30.0 for an age in seconds, in units of 1/ScoreScale (to the
\* hundred seconds).
age_months(age) ==
    (age \div (30 * Day)) * ScoreScale
    + (((age % (30 * Day)) \div 100) * ScoreScale) \div ((30 * Day) \div 100)

\* (-age_days / 30.0).exp(); a last use in the future gives a score over 1.
recency_score(t, last_used) ==
    LET age == t - last_used
    IN  IF age >= 0 THEN exp_neg(age_months(age))
        ELSE LET e == exp_neg(age_months(0 - age))
             IN  IF e = 0 THEN ScoreScale * ScoreScale
                 ELSE (ScoreScale * ScoreScale) \div e

\* RankingWeights::default()
DefaultWeights ==
    [frequency |-> (35 * ScoreScale) \div 100,
     recency |-> (30 * ScoreScale) \div 100,
     dir_exact |-> (35 * ScoreScale) \div 100,
     dir_hierarchy |-> (15 * ScoreScale) \div 100,
     failure_penalty |-> (50 * ScoreScale) \div 100,
     frecent_boost_max |-> (10 * ScoreScale) \div 100,
     ngram |-> (40 * ScoreScale) \div 100]

\* The product of two scores.
score_mul(a, b) == (a * b) \div ScoreScale

\* SQLite's LIKE: '%' matches any run of characters, '_' any one character,
\* and letters match whatever their case.
RECURSIVE like(_, _)
like(pattern, str) ==
    IF pattern = <<>> THEN str = <<>>
    ELSE IF Head(pattern) = "%"
         THEN like(Tail(pattern), str) \/ (str # <<>> /\ like(pattern, Tail(str)))
    ELSE /\ str # <<>>
         /\ \/ Head(pattern) = "_"
            \/ to_lowercase_char(Head(pattern)) = to_lowercase_char(Head(str))
         /\ like(Tail(pattern), Tail(str))

\* c.argv LIKE ?1 || '%'
like_prefix(argv, prefix) == like(prefix \o <<"%">>, argv)

\* The orders an ORDER BY .. DESC may return rows in: rows carry their sort
\* key (a tuple of numbers) in the field key, rows of equal key come in any
\* order.
RECURSIVE key_greater(_, _)
key_greater(k1, k2) ==
    IF k1 = <<>> THEN FALSE
    ELSE IF Head(k1) # Head(k2) THEN Head(k1) > Head(k2)
    ELSE key_greater(Tail(k1), Tail(k2))

RECURSIVE orders_desc(_)
orders_desc(rows) ==
    IF rows = {} THEN {<<>>}
    ELSE UNION {{<<r>> \o o : o \in orders_desc(rows \ {r})}
                : r \in {x \in rows : ~\E y \in rows : key_greater(y.key, x.key)}}

\* ORDER BY .. DESC LIMIT n
order_limit(rows, n) == {truncate(o, n) : o \in orders_desc(rows)}

\* SELECT id FROM places WHERE host = ?1 AND dir = ?2, .ok()
place_lookup(db, host, dir) ==
    IF place_id_of(db, host, dir) = 0 THEN None ELSE Some(place_id_of(db, host, dir))

RECURSIVE SumFrequency(_)
SumFrequency(rows) ==
    IF rows = {} THEN 0
    ELSE LET r == CHOOSE x \in rows : TRUE
         IN  r.frequency + SumFrequency(rows \ {r})

\* The rows of the query of get_arg_suggestions, before ORDER BY and LIMIT:
\* one per arg_value of the (program, subcommand).
arg_rows(db, parsed, place_id) ==
    LET matching == {r \in db.arg_patterns :
                        r.program = parsed.program /\ r.subcommand = parsed.subcommand}
    IN  {LET of_arg == {r \in matching : r.arg_value = a}
             total_freq == SumFrequency(of_arg)
             dir_freq == SumFrequency({r \in of_arg :
                             IsSome(place_id) /\ r.place_id = place_id})
         IN  [arg_value |-> a, total_freq |-> total_freq, dir_freq |-> dir_freq,
              key |-> <<dir_freq, total_freq>>]
         : a \in {r.arg_value : r \in matching}}

\* The suggestion made of one row of arg_rows.
arg_suggestion(prefix, row) ==
    [cmd |-> prefix \o row.arg_value,
     score |-> MinInt(ln_freq_score(row.total_freq)
                      + (IF row.dir_freq > 0 THEN (3 * ScoreScale) \div 10 ELSE 0),
                      ScoreScale)]

\* The lists get_arg_suggestions may return (one per order the query may
\* give its rows in).
get_arg_suggestions(db, prefix, cwd, limit) ==
    LET parsed == parse_command(prefix)
        place_id == place_lookup(db, Hostname, cwd)
    IN  IF ~is_partial(parsed) THEN {<<>>}
        ELSE {[i \in 1..Len(rows) |-> arg_suggestion(prefix, rows[i])]
              : rows \in order_limit(arg_rows(db, parsed, place_id), limit)}

\* Path::parent of an absolute path: None for the root.
RECURSIVE strip_slashes(_)
strip_slashes(path) ==
    IF Len(path) > 1 /\ path[Len(path)] = "/"
    THEN strip_slashes(SubSeq(path, 1, Len(path) - 1))
    ELSE path

RECURSIVE drop_component(_)
drop_component(path) ==
    IF path = <<>> \/ path[Len(path)] = "/" THEN path
    ELSE drop_component(SubSeq(path, 1, Len(path) - 1))

path_parent(path) ==
    LET q == strip_slashes(path)
    IN  IF q = <<>> \/ q = <<"/">> THEN None
        ELSE Some(strip_slashes(drop_component(q)))

\* get_directory_hierarchy: dir and its ancestors, max_depth at most, the
\* root left out.
RECURSIVE hierarchy_loop(_, _, _)
hierarchy_loop(dirs, current, depth) ==
    IF depth = 0 THEN dirs
    ELSE LET parent == path_parent(current)
         IN  IF ~IsSome(parent) THEN dirs
             ELSE IF Unwrap(parent) = <<>> \/ Unwrap(parent) = <<"/">> THEN dirs
             ELSE hierarchy_loop(Append(dirs, Unwrap(parent)), Unwrap(parent), depth - 1)

\* A hierarchy of the directory alone.
get_directory_hierarchy_flat(dir, max_depth) == <<dir>>

get_directory_hierarchy(dir, max_depth) == hierarchy_loop(<<dir>>, dir, max_depth)

\* get_command_id: 0 stands for the Err of a command that has no row.
get_command_id(db, argv) == command_id_of(db, argv)

argv_of(db, command_id) == (CHOOSE c \in db.commands : c.id = command_id).argv

dir_of(db, place_id) == (CHOOSE p \in db.places : p.id = place_id).dir

\* A trigram bonus without the multiplier 1.5.
trigram_bonus_plain(freq) == MinInt(ln_freq_score(freq), ScoreScale)

\* (ln(freq) / 10) * 1.5, capped at 1
trigram_bonus(freq) == MinInt((ln_freq_score(freq) * 3) \div 2, ScoreScale)

\* ln(freq) / 10, capped at 1
bigram_bonus(freq) == MinInt(ln_freq_score(freq), ScoreScale)

\* The rows of the trigram lookup, before ORDER BY and LIMIT.
trigram_rows(db, prev2_id, prev1_id, prefix) ==
    {[argv |-> argv_of(db, n.command_id), frequency |-> n.frequency,
      key |-> <<n.frequency>>]
     : n \in {g \in db.ngrams_3 :
                /\ g.prev2_command_id = prev2_id
                /\ g.prev1_command_id = prev1_id
                /\ \E c \in db.commands : c.id = g.command_id
                                          /\ like_prefix(c.argv, prefix)}}

\* The rows of the bigram lookup, before ORDER BY and LIMIT.
bigram_rows(db, prev1_id, prefix) ==
    {[argv |-> argv_of(db, n.command_id), frequency |-> n.frequency,
      key |-> <<n.frequency>>]
     : n \in {g \in db.ngrams_2 :
                /\ g.prev_command_id = prev1_id
                /\ \E c \in db.commands : c.id = g.command_id
                                          /\ like_prefix(c.argv, prefix)}}

\* The table ngram_bonus: the trigram rows are inserted first, a bigram row
\* only for a command that has no entry yet (entry().or_insert()).  A
\* command with no entry has bonus 0.
ngram_bonus(tri, bi, cmd) ==
    IF \E i \in 1..Len(tri) : tri[i].argv = cmd
    THEN trigram_bonus((CHOOSE r \in {tri[i] : i \in 1..Len(tri)} : r.argv = cmd).frequency)
    ELSE IF \E i \in 1..Len(bi) : bi[i].argv = cmd
    THEN bigram_bonus((CHOOSE r \in {bi[i] : i \in 1..Len(bi)} : r.argv = cmd).frequency)
    ELSE 0

\* The pairs of lookup results (trigram rows, bigram rows) strategy 1 may
\* work on.
ngram_lookups(db, p) ==
    LET prev1_id == IF p.last_cmds = <<>> THEN 0 ELSE get_command_id(db, p.last_cmds[1])
        prev2_id == IF Len(p.last_cmds) < 2 THEN 0 ELSE get_command_id(db, p.last_cmds[2])
        tris == IF prev1_id # 0 /\ prev2_id # 0
                THEN order_limit(trigram_rows(db, prev2_id, prev1_id, p.prefix), p.limit)
                ELSE {<<>>}
        bis == IF prev1_id # 0
               THEN order_limit(bigram_rows(db, prev1_id, p.prefix), p.limit)
               ELSE {<<>>}
    IN  tris \X bis

\* SUM(CASE WHEN p.dir IN (dirs) THEN 1.0 / (1 + (LENGTH(cwd) - LENGTH(p.dir))
\* / 10.0) ELSE 0 END) over history rows.
RECURSIVE hierarchy_sum(_, _, _, _)
hierarchy_sum(db, rows, cwd, dirs) ==
    IF rows = {} THEN 0
    ELSE LET h == CHOOSE x \in rows : TRUE
             dir == dir_of(db, h.place_id)
         IN  (IF \E i \in 1..Len(dirs) : dirs[i] = dir
              THEN (10 * ScoreScale) \div (10 + Len(cwd) - Len(dir))
              ELSE 0)
             + hierarchy_sum(db, rows \ {h}, cwd, dirs)

\* The rows of the main query of predict_with_conn, before ORDER BY and
\* LIMIT: one per command that matches the prefix and has history on the
\* host.
main_rows(db, p, hostname) ==
    LET dirs == get_directory_hierarchy(p.cwd, 3)
        joined == {h \in db.history :
                     /\ \E c \in db.commands : c.id = h.command_id
                                               /\ like_prefix(c.argv, p.prefix)
                     /\ \E pl \in db.places : pl.id = h.place_id /\ pl.host = hostname}
    IN  {LET rows == {h \in joined : h.command_id = id}
             freq == Cardinality(rows)
             last_used == MaxOf({h.start_time : h \in rows})
             exact_dir_freq == Cardinality({h \in rows : dir_of(db, h.place_id) = p.cwd})
             hierarchy_score == hierarchy_sum(db, rows, p.cwd, dirs)
             failures == Cardinality({h \in rows : IsSome(h.exit_status)
                                                   /\ Unwrap(h.exit_status) # 0})
         IN  [cmd |-> argv_of(db, id), freq |-> freq, last_used |-> last_used,
              exact_dir_freq |-> exact_dir_freq, hierarchy_score |-> hierarchy_score,
              failure_rate |-> (failures * ScoreScale) \div freq,
              key |-> <<exact_dir_freq, hierarchy_score, last_used>>]
         : id \in {h.command_id : h \in joined}}

\* f64::ln_1p of a rank; a rank of -1 gives minus infinity (here a number
\* under every score), a rank under -1 gives NaN, which f64::min drops in
\* favour of the cap.
ln_1p_rank(rank, cap) ==
    IF rank >= 0 THEN ln_ratio(RankScale + rank, RankScale)
    ELSE IF rank > 0 - RankScale THEN 0 - ln_ratio(RankScale, RankScale + rank)
    ELSE IF rank = 0 - RankScale THEN 0 - 1000 * ScoreScale
    ELSE 100 * cap

\* The cross-pollination boost of the frecent directory cwd.
frecent_boost(db, p, w) ==
    IF p.frecent_boost
    THEN LET rows == {r \in db.frecent_paths : r.path = p.cwd /\ r.path_type = "d"}
             frecent_rank == IF rows = {} THEN 0 ELSE (CHOOSE r \in rows : TRUE).rank
         IN  MinInt(ln_1p_rank(frecent_rank, w.frecent_boost_max) \div 100,
                    w.frecent_boost_max)
    ELSE 0

\* The sum of the weighted signals of one row of the main query, before it
\* is capped at 1.
weighted_sum(row, bonus, boost, w, t) ==
    LET freq_score == ln_freq_score(row.freq)
        dir_score == IF row.exact_dir_freq > 0 THEN w.dir_exact
                     ELSE IF row.hierarchy_score > 0
                     THEN score_mul(w.dir_hierarchy, MinInt(row.hierarchy_score, ScoreScale))
                     ELSE 0
        ngram_score == score_mul(bonus, w.ngram)
    IN  score_mul(freq_score, w.frequency)
        + score_mul(recency_score(t, row.last_used), w.recency)
        + dir_score + boost + ngram_score

\* 1.0 - failure_rate * w.failure_penalty
failure_penalty(row, w) == ScoreScale - score_mul(row.failure_rate, w.failure_penalty)

\* The score of one row of the main query.
suggestion_score(row, bonus, boost, w, t) ==
    score_mul(MinInt(weighted_sum(row, bonus, boost, w, t), ScoreScale),
              failure_penalty(row, w))

\* Faulty variant: the suggestions are cut at the limit in the order of the
\* main query, without the sort by score.
predict_with_conn_unsorted(db, p, hostname, t) ==
    LET w == IF IsSome(p.weights) THEN Unwrap(p.weights) ELSE DefaultWeights
        boost == frecent_boost(db, p, w)
    IN  {LET suggestions ==
                 [i \in 1..Len(rows) |->
                     [cmd |-> rows[i].cmd,
                      score |-> suggestion_score(rows[i],
                                    ngram_bonus(ng[1], ng[2], rows[i].cmd),
                                    boost, w, t)]]
         IN  truncate(suggestions, p.limit)
         : rows \in order_limit(main_rows(db, p, hostname), 2 * p.limit),
           ng \in ngram_lookups(db, p)}

\* The lists predict_with_conn may return (one per order its queries may
\* give their rows in); t is the clock.
predict_with_conn(db, p, hostname, t) ==
    LET w == IF IsSome(p.weights) THEN Unwrap(p.weights) ELSE DefaultWeights
        boost == frecent_boost(db, p, w)
    IN  {LET suggestions ==
                 [i \in 1..Len(rows) |->
                     [cmd |-> rows[i].cmd,
                      score |-> suggestion_score(rows[i],
                                    ngram_bonus(ng[1], ng[2], rows[i].cmd),
                                    boost, w, t)]]
         IN  truncate(sort_by_score(suggestions), p.limit)
         : rows \in order_limit(main_rows(db, p, hostname), 2 * p.limit),
           ng \in ngram_lookups(db, p)}

\* Whether the score of a row of the main query is NaN: the boost is minus
\* infinity (ln_1p of a rank of -1.0) and the failure penalty it is
\* multiplied by is 0.
score_is_nan(db, p, row) ==
    LET w == IF IsSome(p.weights) THEN Unwrap(p.weights) ELSE DefaultWeights
    IN  /\ p.frecent_boost
        /\ \E r \in db.frecent_paths :
              r.path = p.cwd /\ r.path_type = "d" /\ r.rank = 0 - RankScale
        /\ failure_penalty(row, w) = 0

\* Whether predict_with_conn may panic: partial_cmp(..).unwrap() in the sort
\* of two or more suggestions of which one has a NaN score.
predict_panics(db, p, hostname) ==
    \E rows \in order_limit(main_rows(db, p, hostname), 2 * p.limit) :
        /\ Len(rows) >= 2
        /\ \E i \in 1..Len(rows) : score_is_nan(db, p, rows[i])

\* A predict that never tries the argument suggestions.
expecting_args_never(prefix) == FALSE

\* A predict that always tries the argument suggestions first.
expecting_args_always(prefix) == TRUE

\* Whether predict first tries the argument suggestions.
expecting_args(prefix) ==
    is_partial(parse_command(prefix)) /\ parse_command(prefix).program # <<>>

\* The lists Database::predict may return to a client that is alone: the
\* argument suggestions when the prefix expects arguments and there are
\* some, else the lists of predict_with_conn.  Each comes with the branch
\* that made it.
predict(db, p, hostname, t) ==
    LET mains == {[suggestions |-> l, branch |-> "main"]
                  : l \in predict_with_conn(db, p, hostname, t)}
        args == get_arg_suggestions(db, p.prefix, p.cwd, p.limit)
    IN  IF expecting_args(p.prefix)
        THEN {[suggestions |-> l, branch |-> "args"] : l \in args \ {<<>>}}
             \cup (IF <<>> \in args THEN mains ELSE {})
        ELSE mains

\* A store_command that returns without having written anything.
store_command_lost(s, p, t, kinds) == s

(* ------------------------------ ingestion ----------------------------- *)

\* p is a StoreParams [cmd, cwd, exit_status, start_time, prev_cmd,
\* prev2_cmd]; t is the clock; kinds is what the filesystem says of each
\* argument.  The statements run one after the other on the connection,
\* outside any transaction.
store_command(s, p, t, kinds) ==
    LET s1 == get_or_create_command(s, p.cmd)
        command_id == command_id_of(s1.db, p.cmd)
        s2 == get_or_create_place(s1, Hostname, p.cwd)
        place_id == place_id_of(s2.db, Hostname, p.cwd)
        start_time == IF IsSome(p.start_time) THEN Unwrap(p.start_time) ELSE t
        s3 == insert_history(s2, command_id, place_id, start_time, p.exit_status)
        has_prev == IsSome(p.prev_cmd)
        has_prev2 == has_prev /\ IsSome(p.prev2_cmd)
        s4 == IF has_prev THEN get_or_create_command(s3, Unwrap(p.prev_cmd)) ELSE s3
        prev_id == IF has_prev THEN command_id_of(s4.db, Unwrap(p.prev_cmd)) ELSE 0
        s5 == IF has_prev THEN update_bigram(s4, prev_id, command_id, t) ELSE s4
        s6 == IF has_prev2 THEN get_or_create_command(s5, Unwrap(p.prev2_cmd)) ELSE s5
        prev2_id == IF has_prev2 THEN command_id_of(s6.db, Unwrap(p.prev2_cmd)) ELSE 0
        s7 == IF has_prev2 THEN update_trigram(s6, prev2_id, prev_id, command_id, t)
              ELSE s6
        s8 == store_parsed_command(s7, command_id, p.cmd)
        s9 == store_arg_patterns(s8, p.cmd, Some(place_id), t)
    IN  extract_frecent_paths(s9, p.cmd, p.cwd, kinds, t)

(* ------------------------------- deletion ----------------------------- *)

delete_history(s, command_id) ==
    Execute(s, [s.db EXCEPT !.history = {h \in @ : h.command_id # command_id}])

\* Faulty variant: the rows are deleted by command_id only, not by
\* prev_command_id.
delete_ngrams_2_cur_only(s, command_id) ==
    Execute(s, [s.db EXCEPT !.ngrams_2 = {g \in @ : g.command_id # command_id}])

delete_ngrams_2(s, command_id) ==
    Execute(s,
        [s.db EXCEPT !.ngrams_2 =
            {g \in @ : g.command_id # command_id /\ g.prev_command_id # command_id}])

delete_ngrams_3(s, command_id) ==
    Execute(s,
        [s.db EXCEPT !.ngrams_3 =
            {g \in @ : /\ g.command_id # command_id
                       /\ g.prev1_command_id # command_id
                       /\ g.prev2_command_id # command_id}])

\* dir_command_freq is never written by the daemon: the statement runs on an
\* empty table.
delete_dir_command_freq(s, command_id) == Execute(s, s.db)

\* Faulty variant: the ParsedCommand rows of every command are deleted.
delete_parsed_commands_all(s, command_id) ==
    Execute(s, [s.db EXCEPT !.parsed_commands = {}])

delete_parsed_commands(s, command_id) ==
    Execute(s,
        [s.db EXCEPT !.parsed_commands = {r \in @ : r.command_id # command_id}])

\* DELETE FROM arg_patterns WHERE program = ?1 AND subcommand = ?2, only for
\* a command that has a subcommand.
delete_arg_patterns(s, cmd) ==
    LET parsed == parse_command(cmd)
    IN  IF parsed.program # <<>> /\ IsSome(parsed.subcommand)
        THEN Execute(s,
                [s.db EXCEPT !.arg_patterns =
                    {r \in @ : ~(r.program = parsed.program
                                 /\ r.subcommand = parsed.subcommand)}])
        ELSE s

delete_commands_row(s, command_id) ==
    Execute(s, [s.db EXCEPT !.commands = {c \in @ : c.id # command_id}])

\* A delete_command whose lookup of a missing command gives id 0 and goes on.
delete_command_unchecked(s, cmd) ==
    LET command_id == command_id_of(s.db, cmd)
    IN  delete_commands_row(
            delete_arg_patterns(
                delete_parsed_commands(
                    delete_dir_command_freq(
                        delete_ngrams_3(
                            delete_ngrams_2(
                                delete_history(Execute(s, s.db), command_id),
                                command_id),
                            command_id),
                        command_id),
                    command_id),
                cmd),
            command_id)

\* The lookup fails with "Command not found" when no row has argv = cmd.
delete_command(s, cmd) ==
    LET command_id == command_id_of(s.db, cmd)
        s0 == Execute(s, s.db)
    IN  IF s0.err \/ command_id = 0 THEN [s0 EXCEPT !.err = TRUE]
        ELSE delete_commands_row(
                 delete_arg_patterns(
                     delete_parsed_commands(
                         delete_dir_command_freq(
                             delete_ngrams_3(
                                 delete_ngrams_2(
                                     delete_history(s0, command_id),
                                     command_id),
                                 command_id),
                             command_id),
                         command_id),
                     cmd),
                 command_id)

(* ------------------------------ migrations ---------------------------- *)

CURRENT_VERSION == 3

\* The tables and indexes migration v2 creates.
TablesV2 == {"parsed_commands", "arg_patterns"}

IndexesV2 ==
    {"idx_parsed_commands_program", "idx_parsed_commands_subcommand",
     "idx_arg_patterns_lookup", "idx_arg_patterns_place"}

\* The table and indexes migration v3 creates.
TablesV3 == {"frecent_paths"}

IndexesV3 ==
    {"idx_frecent_paths_type", "idx_frecent_paths_rank", "idx_frecent_paths_path"}

\* The tables and indexes of SCHEMA_V1.
SchemaTables ==
    {"commands", "places", "contexts", "sessions", "history", "ngrams_2",
     "ngrams_3", "dir_command_freq", "schema_version"}
    \cup TablesV2 \cup TablesV3

SchemaIndexes ==
    {"idx_history_command_id", "idx_history_place_id", "idx_history_start_time",
     "idx_history_time_bucket", "idx_commands_argv", "idx_places_dir",
     "idx_ngrams_2_prev", "idx_ngrams_3_prev"}
    \cup IndexesV2 \cup IndexesV3

\* A database file: sch is [tables, indexes, schema_version], the names of
\* the tables and indexes it has and the rows of schema_version; data holds
\* the rows of the other tables.
Store(sch, data) == [sch |-> sch, data |-> data]

\* CREATE TABLE / CREATE INDEX IF NOT EXISTS of a batch.
create_if_not_exists(st, tables, indexes) ==
    [st EXCEPT !.sch.tables = @ \cup tables, !.sch.indexes = @ \cup indexes]

\* get_schema_version: 0 when there is no schema_version table, else
\* COALESCE(MAX(version), 0).
get_schema_version(st) ==
    IF "schema_version" \notin st.sch.tables THEN 0
    ELSE IF st.sch.schema_version = {} THEN 0
    ELSE MaxOf({r.version : r \in st.sch.schema_version})

\* A set_schema_version that writes nothing.
set_schema_version_skip(st, version, t) == st

\* INSERT OR REPLACE INTO schema_version (version, applied_at)
set_schema_version(st, version, t) ==
    [st EXCEPT !.sch.schema_version =
        {r \in @ : r.version # version}
        \cup {[version |-> version, applied_at |-> t]}]

apply_migration_v2(st) == create_if_not_exists(st, TablesV2, IndexesV2)

\* The rows of history joined with places whose directory is dir.
history_in_dir(data, dir) ==
    {h \in data.history : \E p \in data.places : p.id = h.place_id /\ p.dir = dir}

\* INSERT OR IGNORE INTO frecent_paths .. SELECT p.dir, 'd', COUNT(*) * 1.0,
\* MAX(h.start_time), COUNT(*) .. GROUP BY p.dir: groups is the order the
\* groups come in, a group whose (path, 'd') has a row is ignored.
RECURSIVE bootstrap_loop(_, _, _)
bootstrap_loop(data, groups, i) ==
    IF i > Len(groups) THEN data
    ELSE LET dir == groups[i].dir
             rows == history_in_dir(data, dir)
         IN  IF \E r \in data.frecent_paths : r.path = dir /\ r.path_type = "d"
             THEN bootstrap_loop(data, groups, i + 1)
             ELSE bootstrap_loop(
                      [data EXCEPT !.frecent_paths =
                          @ \cup {[id |-> last_insert_rowid(@), path |-> dir,
                                   path_type |-> "d",
                                   rank |-> Cardinality(rows) * RankScale,
                                   last_access |-> MaxOf({h.start_time : h \in rows}),
                                   access_count |-> Cardinality(rows)]}],
                      groups, i + 1)

\* The groups of the bootstrap query, in the orders it may give them.
bootstrap_groups(data) ==
    orders_desc({[dir |-> p.dir, key |-> <<>>]
                 : p \in {q \in data.places : history_in_dir(data, q.dir) # {}}})

apply_migration_v3(st, groups) ==
    LET created == create_if_not_exists(st, TablesV3, IndexesV3)
    IN  [created EXCEPT !.data = bootstrap_loop(@, groups, 1)]

apply_migration(st, version, groups) ==
    CASE version = 2 -> apply_migration_v2(st)
      [] version = 3 -> apply_migration_v3(st, groups)
      [] OTHER -> st

\* for version in (current + 1)..=CURRENT_VERSION
RECURSIVE migrate_from(_, _, _, _)
migrate_from(st, version, groups, t) ==
    IF version > CURRENT_VERSION THEN st
    ELSE migrate_from(
             set_schema_version(apply_migration(st, version, groups), version, t),
             version + 1, groups, t)

\* t is the clock at the call.
run_migrations(st, groups, t) ==
    LET current == get_schema_version(st)
    IN  IF current = 0
        THEN set_schema_version(
                 create_if_not_exists(st, SchemaTables, SchemaIndexes),
                 CURRENT_VERSION, t)
        ELSE IF current < CURRENT_VERSION
        THEN migrate_from(st, current + 1, groups, t)
        ELSE st

\* A file that does not exist yet.
NoSchema == [tables |-> {}, indexes |-> {}, schema_version |-> {}]

(* ------------------------------- inputs ------------------------------- *)

\* "git co mn": a program with a subcommand and one learnable argument.
GitCoMn == <<"g","i","t"," ","c","o"," ","m","n">>

\* "ls /t": a program without subcommand, with one learnable argument.
LsT == <<"l","s"," ","/","t">>

Cmds == {GitCoMn, LsT}

OptCmds == {None} \cup {Some(c) : c \in Cmds}

Cwds == { <<"/","p">> }

\* One StoreParams; the start time is the clock's, the exit status 0.
SP(cmd, cwd, prev_cmd, prev2_cmd) ==
    [cmd |-> cmd, cwd |-> cwd, exit_status |-> Some(0), start_time |-> None,
     prev_cmd |-> prev_cmd, prev2_cmd |-> prev2_cmd]

\* The store requests of the model: each command alone, after one previous
\* command, after two, and with a prev2_cmd but no prev_cmd.
StoreParams ==
    {SP(c, d, None, None) : c \in Cmds, d \in Cwds}
    \cup {SP(LsT, d, Some(GitCoMn), None) : d \in Cwds}
    \cup {SP(GitCoMn, d, Some(LsT), Some(GitCoMn)) : d \in Cwds}
    \cup {SP(LsT, d, Some(GitCoMn), Some(LsT)) : d \in Cwds}
    \cup {SP(LsT, d, None, Some(GitCoMn)) : d \in Cwds}

\* What the filesystem says of the arguments of a command: the argument of
\* "ls /t" is a directory or is missing, that of "git co mn" is no path.
KindsOf(cmd) ==
    IF cmd = LsT THEN {<<"d">>, <<"x">>} ELSE {<<"x">>}

\* The paths of the frecency requests: "/ab", "/Ab" and "/a/b".
PathAb == <<"/","a","b">>
PathCapAb == <<"/","A","b">>
PathASlashB == <<"/","a","/","b">>

\* One FrecentAddParams.
FA(path, path_type, rank, timestamp) ==
    [path |-> path, path_type |-> path_type, rank |-> rank, timestamp |-> timestamp]

\* The frecent_add requests of the model: a bump of each path, and imports
\* with a rank just under the aging limit (1999.5), over it (3000.0), zero,
\* and under the pruning limit (0.5) with a last access an hour before the
\* epoch; an import of rank 2.0 last accessed a day before the epoch; and a
\* bump with a timestamp of an hour before the epoch and no rank.
FrecentAddParams ==
    {FA(PathAb, "d", None, None), FA(PathCapAb, "d", None, None),
     FA(PathASlashB, "f", None, None),
     FA(PathAb, "d", Some(AgingLimit * RankScale - RankScale \div 2), None),
     FA(PathAb, "d", Some((AgingLimit + AgingLimit \div 2) * RankScale), None),
     FA(PathCapAb, "d", Some(0), Some(0)),
     FA(PathASlashB, "f", Some(RankScale \div 2), Some(0 - Hour)),
     FA(PathASlashB, "f", Some(2 * RankScale), Some(0 - Day)),
     FA(PathAb, "d", None, Some(0 - Hour))}

\* default_frecent_limit()
DefaultFrecentLimit == 20

\* The search terms ["ab"] and ["a", "b"].
TermsAb == << <<"a","b">> >>
TermsASpaceB == << <<"a">>, <<"b">> >>

\* One FrecentQueryParams.
FQ(terms, path_type, limit, raw) ==
    [terms |-> terms, path_type |-> path_type, limit |-> limit, raw |-> raw]

\* The frecent_query requests of the model: with and without terms, with
\* and without a path_type filter, with the default limit and with limit 1,
\* raw and not.
FrecentQueryParams ==
    {FQ(<<>>, None, DefaultFrecentLimit, TRUE),
     FQ(<<>>, Some("d"), 1, FALSE),
     FQ(TermsAb, None, DefaultFrecentLimit, FALSE),
     FQ(TermsAb, Some("d"), DefaultFrecentLimit, FALSE),
     FQ(TermsAb, Some("f"), DefaultFrecentLimit, TRUE),
     FQ(TermsASpaceB, None, 1, FALSE),
     FQ(<<>>, None, 1, FALSE)}

\* default_limit()
DefaultLimit == 5

\* One PredictParams, with the default weights.
PP(prefix, cwd, last_cmds, limit, boost) ==
    [prefix |-> prefix, cwd |-> cwd, last_cmds |-> last_cmds, limit |-> limit,
     frecent_boost |-> boost, weights |-> None]

\* The predict requests of the model: the prefix "l" after "git co mn", and
\* the prefix "ls ", which expects arguments, after "ls /t" and "git co mn".
PredictParams ==
    {PP(<<"l">>, d, <<GitCoMn>>, DefaultLimit, TRUE) : d \in Cwds}
    \cup {PP(<<"l","s"," ">>, d, <<LsT, GitCoMn>>, 1, FALSE) : d \in Cwds}

\* "ls -l": a program without subcommand and without a learnable argument.
LsL == <<"l","s"," ","-","l">>

\* The store requests of the single client that asks for predictions, all
\* in "/p": "ls /t" after "git co mn" after "ls -l", "ls /t" after
\* "git co mn", "ls -l" after "git co mn", and "git co mn" alone.
PredictStoreParams ==
    {SP(LsT, <<"/","p">>, Some(GitCoMn), Some(LsL)),
     SP(LsT, <<"/","p">>, Some(GitCoMn), None),
     SP(LsL, <<"/","p">>, Some(GitCoMn), None),
     SP(GitCoMn, <<"/","p">>, None, None)}

\* Its predict requests: the prefix "ls" after "git co mn" after "ls -l",
\* the prefix "L" with limit 1, and the prefixes "ls " and "git co ", which
\* expect arguments, the first also with limit 0.
SinglePredictParams ==
    {PP(<<"l","s">>, <<"/","p">>, <<GitCoMn, LsL>>, DefaultLimit, TRUE),
     PP(<<"L">>, <<"/","p">>, <<>>, 1, FALSE),
     PP(<<"l","s"," ">>, <<"/","p">>, <<GitCoMn>>, DefaultLimit, FALSE),
     PP(<<"l","s"," ">>, <<"/","p">>, <<GitCoMn>>, 0, FALSE),
     PP(<<"g","i","t"," ","c","o"," ">>, <<"/","q">>, <<>>, DefaultLimit, FALSE)}

\* Weights a request may carry: the default ones with more weight on the
\* recency (0.60) and the whole of the failure rate as penalty (1.0).
HeavyWeights ==
    [DefaultWeights EXCEPT !.recency = (60 * ScoreScale) \div 100,
                           !.failure_penalty = ScoreScale]

\* The frequencies of the n-gram rows scored: 1, 2, 8, and 30000, at which
\* both bonuses are at their cap.
NgramFreqs == {1, 2, 8, 30000}

\* The rows of the main query scored against each other: one or two runs,
\* the last now or thirty days ago, in cwd, in a parent of cwd or elsewhere,
\* none, half or all of them failed.
ScoreRows ==
    {[cmd |-> LsT, freq |-> n, last_used |-> lu, exact_dir_freq |-> e * n,
      hierarchy_score |-> h * n, failure_rate |-> fr]
     : n \in {1, 2}, lu \in {0, 0 - 30 * Day},
       e \in {0, 1}, h \in {0, (10 * ScoreScale) \div 12},
       fr \in {0, ScoreScale \div 2, ScoreScale}}

\* The directories of the candidates scored against each other: cwd is
\* "/a/b/c/d/e" or "/p", the ancestor any directory above it, the root
\* included.
DeepCwd == <<"/","a","/","b","/","c","/","d","/","e">>

ScoreCwds == {DeepCwd, <<"/","p">>}

Ancestors(cwd) ==
    {<<"/">>} \cup {SubSeq(cwd, 1, i - 1) : i \in {j \in 2..Len(cwd) : cwd[j] = "/"}}

\* The store in which "ls /t" has run n times in cwd, "ls -l" n times in
\* anc and "l" n times in "/q", all at time lu with exit status status.
DirDb(cwd, anc, n, lu, status) ==
    [EmptyDb EXCEPT
        !.commands = {[id |-> 1, argv |-> LsT], [id |-> 2, argv |-> LsL],
                      [id |-> 3, argv |-> <<"l">>]},
        !.places = {[id |-> 1, host |-> Hostname, dir |-> cwd],
                    [id |-> 2, host |-> Hostname, dir |-> anc],
                    [id |-> 3, host |-> Hostname, dir |-> <<"/","q">>]},
        !.history = {[id |-> 3 * (k - 1) + c, command_id |-> c, place_id |-> c,
                      start_time |-> lu, exit_status |-> Some(status),
                      time_bucket |-> time_bucket_of(lu)]
                     : k \in 1..n, c \in 1..3}]

\* The requests the concurrent clients send.
ClientRequests ==
    {[method |-> "store", params |-> SP(LsT, d, Some(GitCoMn), None)] : d \in Cwds}
    \cup {[method |-> "store", params |-> SP(GitCoMn, d, Some(LsT), Some(GitCoMn))]
          : d \in Cwds}
    \cup {[method |-> "predict", params |-> pp] : pp \in PredictParams}
    \cup {[method |-> "delete", params |-> [cmd |-> LsT]]}

\* The history a database file may hold when the daemon opens it: "ls /t"
\* run in "/p" at time 0, in "/q" at time 1, both or neither.
OldHistory ==
    {[id |-> 1, command_id |-> 1, place_id |-> 1, start_time |-> 0,
      exit_status |-> Some(0), time_bucket |-> 0],
     [id |-> 2, command_id |-> 1, place_id |-> 2, start_time |-> 1,
      exit_status |-> Some(0), time_bucket |-> 0]}

OldData ==
    {[EmptyDb EXCEPT
        !.commands = IF hs = {} THEN {} ELSE {[id |-> 1, argv |-> LsT]},
        !.places = {[id |-> h.place_id, host |-> Hostname,
                     dir |-> IF h.place_id = 1 THEN <<"/","p">> ELSE <<"/","q">>]
                    : h \in hs},
        !.history = hs]
     : hs \in SUBSET OldHistory}

\* The schema of a file at version v >= 1: the tables and indexes the
\* versions up to v have brought, and one schema_version row per version
\* from first to v, all applied at time 0.
SchemaAt(first, v) ==
    [tables |-> SchemaTables \ ((IF v < 2 THEN TablesV2 ELSE {})
                                \cup (IF v < 3 THEN TablesV3 ELSE {})),
     indexes |-> SchemaIndexes \ ((IF v < 2 THEN IndexesV2 ELSE {})
                                  \cup (IF v < 3 THEN IndexesV3 ELSE {})),
     schema_version |-> {[version |-> n, applied_at |-> 0] : n \in first..v}]

\* A frecent_paths row of "/p" that is there before the bootstrap.
OldFrecent ==
    [id |-> 1, path |-> <<"/","p">>, path_type |-> "d", rank |-> 5 * RankScale,
     last_access |-> 0, access_count |-> 5]

\* The files run_migrations may find: none, one whose schema_version table is
\* empty, one at each version 1 .. CURRENT_VERSION reached step by step or
\* created at that version, one at version 2 in which migration v3 ran but
\* was not recorded, and one at CURRENT_VERSION that frecent_add has
\* written to.
StartingStores ==
    {Store(NoSchema, EmptyDb)}
    \cup {Store([SchemaAt(1, CURRENT_VERSION) EXCEPT !.schema_version = {}], d)
          : d \in OldData}
    \cup UNION {{Store(SchemaAt(first, v), d) : first \in {1, v}, d \in OldData}
                : v \in 1..CURRENT_VERSION}
    \cup {Store([SchemaAt(1, 2) EXCEPT !.tables = @ \cup TablesV3,
                                        !.indexes = @ \cup IndexesV3],
                [d EXCEPT !.frecent_paths = {OldFrecent}])
          : d \in OldData}
    \cup {Store(SchemaAt(CURRENT_VERSION, CURRENT_VERSION),
                [d EXCEPT !.frecent_paths = {OldFrecent}])
          : d \in OldData}

\* The number of connections open at a time.
NumTasks == 2

Tasks == 1..NumTasks

\* The statement of a call that fails, counted from 1; 0: none fails.
MaxFault == 13

\* At most MaxFailures calls of a run fail.
MaxFailures == 1

(* -------------------------------- search ------------------------------ *)

\* default_search_limit()
DefaultSearchLimit == 20

\* The score map_row gives a row of the search query.
search_score(cmd_freq, last_used, failure_rate, t) ==
    LET freq_score == ln_freq_score(cmd_freq)
        failure_factor == ScoreScale - score_mul(failure_rate, (50 * ScoreScale) \div 100)
    IN  score_mul(MinInt(score_mul(freq_score, (35 * ScoreScale) \div 100)
                         + score_mul(recency_score(t, last_used),
                                     (30 * ScoreScale) \div 100),
                         ScoreScale),
                  failure_factor)

\* The lists Database::search may return: one row per command that has
\* history on the host (in params.dir when it is given) and an argv that
\* LIKE finds the pattern in.  The columns outside the GROUP BY come from a
\* history row of the greatest start_time; the rows arrive newest first,
\* cut at the limit, and are then sorted by score.  (The duration column is
\* not kept by this model; params.exit_status takes no part in the query.)
search(db, p, hostname, t) ==
    LET joined == {h \in db.history :
                     /\ \E c \in db.commands :
                            /\ c.id = h.command_id
                            /\ like(<<"%">> \o p.pattern \o <<"%">>, c.argv)
                     /\ \E pl \in db.places :
                            /\ pl.id = h.place_id
                            /\ pl.host = hostname
                            /\ (IsSome(p.dir) => pl.dir = Unwrap(p.dir))}
        ids == {h.command_id : h \in joined}
        group(id) == {h \in joined : h.command_id = id}
        last_used(id) == MaxOf({h.start_time : h \in group(id)})
        picks == {f \in [ids -> joined] :
                    \A id \in ids : /\ f[id].command_id = id
                                    /\ f[id].start_time = last_used(id)}
        result(id, h) ==
            LET cmd_freq == Cardinality(group(id))
                failures == Cardinality({g \in group(id) :
                                            IsSome(g.exit_status)
                                            /\ Unwrap(g.exit_status) # 0})
            IN  [cmd |-> argv_of(db, id), cwd |-> dir_of(db, h.place_id),
                 timestamp |-> h.start_time, exit_status |-> h.exit_status,
                 score |-> search_score(cmd_freq, h.start_time,
                                        (failures * ScoreScale) \div cmd_freq, t),
                 key |-> <<h.start_time>>]
    IN  UNION {{sort_by_score(o)
                : o \in order_limit({result(id, f[id]) : id \in ids}, p.limit)}
               : f \in picks}

(* ---------------------------- JSON-RPC layer -------------------------- *)

\* A JSON value: an object with its members, or a value that is no object
\* (a number).  The members of an object hold the values the fields of the
\* Rust struct take.
JObject(fields) == [kind |-> "object", fields |-> fields]
JNumber == [kind |-> "number", fields |-> <<>>]

HasField(v, name) == v.kind = "object" /\ name \in DOMAIN v.fields

\* #[serde(default)]: a member that is absent takes the default.
Field(v, name, default) ==
    IF name \in DOMAIN v.fields THEN v.fields[name] ELSE default

\* What read_line gives handle_client: the end of the stream (Ok(0)), an
\* error (the bytes up to the newline are not UTF-8), or a line, whose text
\* is a JSON value or is not JSON at all (None).
EofLine == [read |-> "eof", text |-> None]
InvalidUtf8Line == [read |-> "error", text |-> None]
NotJsonLine == [read |-> "ok", text |-> None]
JsonLine(v) == [read |-> "ok", text |-> Some(v)]

\* serde_json::from_str::<Request>: the text must be JSON, an object, and
\* have a method; jsonrpc, id and params are optional.
from_str_Request(line) ==
    IF IsSome(line.text) /\ HasField(Unwrap(line.text), "method")
    THEN LET v == Unwrap(line.text)
         IN  Some([jsonrpc |-> Field(v, "jsonrpc", None), id |-> Field(v, "id", None),
                   method |-> v.fields.method, params |-> Field(v, "params", None)])
    ELSE None

\* serde_json::from_value::<T>: the value must be an object with the
\* members T has no default for.
from_value_StoreParams(v) ==
    IF HasField(v, "cmd") /\ HasField(v, "cwd")
    THEN Some([cmd |-> v.fields.cmd, cwd |-> v.fields.cwd,
               exit_status |-> Field(v, "exit_status", None),
               start_time |-> Field(v, "start_time", None),
               prev_cmd |-> Field(v, "prev_cmd", None),
               prev2_cmd |-> Field(v, "prev2_cmd", None)])
    ELSE None

from_value_PredictParams(v) ==
    IF HasField(v, "prefix") /\ HasField(v, "cwd")
    THEN Some([prefix |-> v.fields.prefix, cwd |-> v.fields.cwd,
               last_cmds |-> Field(v, "last_cmds", <<>>),
               limit |-> Field(v, "limit", DefaultLimit),
               frecent_boost |-> Field(v, "frecent_boost", TRUE),
               weights |-> Field(v, "weights", None)])
    ELSE None

from_value_ContextParams(v) ==
    IF HasField(v, "cwd") THEN Some([cwd |-> v.fields.cwd]) ELSE None

from_value_SearchParams(v) ==
    IF HasField(v, "pattern")
    THEN Some([pattern |-> v.fields.pattern,
               limit |-> Field(v, "limit", DefaultSearchLimit),
               dir |-> Field(v, "dir", None),
               exit_status |-> Field(v, "exit_status", None),
               last_cmds |-> Field(v, "last_cmds", <<>>),
               cwd |-> Field(v, "cwd", None),
               ngram_boost |-> Field(v, "ngram_boost", FALSE)])
    ELSE None

from_value_DeleteParams(v) ==
    IF HasField(v, "cmd") THEN Some([cmd |-> v.fields.cmd]) ELSE None

from_value_FrecentAddParams(v) ==
    IF HasField(v, "path")
    THEN Some([path |-> v.fields.path, path_type |-> Field(v, "path_type", "d"),
               rank |-> Field(v, "rank", None),
               timestamp |-> Field(v, "timestamp", None)])
    ELSE None

from_value_FrecentQueryParams(v) ==
    IF v.kind = "object"
    THEN Some([terms |-> Field(v, "terms", <<>>),
               path_type |-> Field(v, "path_type", None),
               limit |-> Field(v, "limit", DefaultFrecentLimit),
               raw |-> Field(v, "raw", FALSE)])
    ELSE None

\* Response::success
Response_success(id, result) == [id |-> id, result |-> Some(result), error |-> None]

\* Response::error; the message is kept as the parts it is formatted from.
Response_error(code, message) ==
    [id |-> None, result |-> None,
     error |-> Some([code |-> code, message |-> message])]

\* The Display of the error delete_command returned in s: the context of
\* the lookup when the lookup failed, else the error of the statement.
delete_command_error(s0, cmd) ==
    IF Execute(s0, s0.db).err \/ command_id_of(s0.db, cmd) = 0
    THEN <<"Command not found: ", cmd>>
    ELSE <<"sqlite error">>

\* What a request did: the response and the database it left.
Outcome(response, newdb) == [response |-> response, db |-> newdb]

\* handle_request: the outcomes the request may have on database db at time
\* t.  fail is the statement that fails in a call that writes (0: none), kinds
\* what the filesystem says of the arguments of a stored command.
handle_request(request, db, fail, t, kinds) ==
    LET params == request.params
        missing == {Outcome(Response_error(-32602, <<"Missing params">>), db)}
        invalid == {Outcome(Response_error(-32602, <<"Invalid params: ", "serde">>), db)}
    IN  CASE request.method = "store" ->
               IF IsSome(params)
               THEN LET sp == from_value_StoreParams(Unwrap(params))
                    IN  IF IsSome(sp)
                        THEN LET s == store_command(Conn(db, fail), Unwrap(sp), t, kinds)
                             IN  {Outcome(
                                    IF s.err
                                    THEN Response_error(-32000,
                                             <<"Store failed: ", "sqlite error">>)
                                    ELSE Response_success(request.id,
                                             [id |-> command_id_of(s.db, Unwrap(sp).cmd)]),
                                    s.db)}
                        ELSE invalid
               ELSE missing
          [] request.method = "predict" ->
               IF IsSome(params)
               THEN LET pp == from_value_PredictParams(Unwrap(params))
                    IN  IF IsSome(pp)
                        THEN {Outcome(Response_success(request.id,
                                          [suggestions |-> r.suggestions]), db)
                              : r \in predict(db, Unwrap(pp), Hostname, t)}
                        ELSE invalid
               ELSE missing
          [] request.method = "context" ->
               IF IsSome(params)
               THEN LET cp == from_value_ContextParams(Unwrap(params))
                    IN  IF IsSome(cp)
                        THEN {Outcome(Response_success(request.id,
                                          [context |-> Unwrap(cp).cwd]), db)}
                        ELSE invalid
               ELSE missing
          [] request.method = "search" ->
               IF IsSome(params)
               THEN LET sp == from_value_SearchParams(Unwrap(params))
                    IN  IF IsSome(sp)
                        THEN {Outcome(Response_success(request.id, [results |-> r]), db)
                              : r \in search(db, Unwrap(sp), Hostname, t)}
                        ELSE invalid
               ELSE missing
          [] request.method = "delete" ->
               IF IsSome(params)
               THEN LET dp == from_value_DeleteParams(Unwrap(params))
                    IN  IF IsSome(dp)
                        THEN LET s == delete_command(Conn(db, fail), Unwrap(dp).cmd)
                             IN  {Outcome(
                                    IF s.err
                                    THEN Response_error(-32000,
                                             <<"Delete failed: ">>
                                             \o delete_command_error(Conn(db, fail),
                                                                     Unwrap(dp).cmd))
                                    ELSE Response_success(request.id, [deleted |-> TRUE]),
                                    s.db)}
                        ELSE invalid
               ELSE missing
          [] request.method = "frecent_add" ->
               IF IsSome(params)
               THEN LET fp == from_value_FrecentAddParams(Unwrap(params))
                    IN  IF IsSome(fp)
                        THEN LET s == frecent_add_with_conn(Conn(db, fail), Unwrap(fp).path,
                                          Unwrap(fp).path_type, Unwrap(fp).rank,
                                          Unwrap(fp).timestamp, t)
                             IN  {Outcome(
                                    IF s.err
                                    THEN Response_error(-32000,
                                             <<"frecent_add failed: ", "sqlite error">>)
                                    ELSE Response_success(request.id, [ok |-> TRUE]),
                                    s.db)}
                        ELSE invalid
               ELSE missing
          [] request.method = "frecent_query" ->
               IF IsSome(params)
               THEN LET qp == from_value_FrecentQueryParams(Unwrap(params))
                    IN  IF IsSome(qp)
                        THEN {Outcome(Response_success(request.id,
                                          [results |-> frecent_query(c, Unwrap(qp), t)]),
                                      db)
                              : c \in candidate_orders(
                                          candidate_rows(db, Unwrap(qp).path_type))}
                        ELSE invalid
               ELSE missing
          [] request.method = "ping" ->
               {Outcome(Response_success(request.id, [pong |-> TRUE]), db)}
          [] OTHER ->
               {Outcome(Response_error(-32601,
                            <<"Method not found: ", request.method>>), db)}

\* What one connection got: the responses written to it, in order, and the
\* database the exchange left.
Exchange(responses, newdb) == [responses |-> responses, db |-> newdb]

\* handle_client on a connection whose client sends line (or closes): the
\* end of the stream and a read error end the task with nothing written;
\* a line is answered once, by handle_request when it parses as a Request
\* and by a parse error when it does not, and the connection is shut down.
\* (The client reads what is written; a Response always serializes.)
handle_client(line, db, fail, t, kinds) ==
    CASE line.read = "eof" -> {Exchange(<<>>, db)}
      [] line.read = "error" -> {Exchange(<<>>, db)}
      [] OTHER ->
           LET request == from_str_Request(line)
           IN  IF IsSome(request)
               THEN {Exchange(<<o.response>>, o.db)
                     : o \in handle_request(Unwrap(request), db, fail, t, kinds)}
               ELSE {Exchange(<<Response_error(-32700, <<"Parse error: ", "serde">>)>>,
                              db)}

\* "ls /x": a command nobody has stored.
LsX == <<"l","s"," ","/","x">>

\* A request object with id 1.
Req(method, params) == JsonLine(JObject([id |-> Some(1), method |-> method,
                                         params |-> Some(params)]))

\* The same without params.
ReqNoParams(method) == JsonLine(JObject([id |-> Some(1), method |-> method]))

\* The methods handle_request knows.
KnownMethods ==
    {"store", "predict", "context", "search", "delete", "frecent_add",
     "frecent_query", "ping"}

\* The methods that take params.
ParamMethods == KnownMethods \ {"ping"}

\* The lines that carry a well-formed request for a method that exists.
ValidLines ==
    {Req("store", JObject(SP(LsT, <<"/","p">>, None, None))),
     Req("store", JObject([cmd |-> GitCoMn, cwd |-> <<"/","p">>,
                           prev_cmd |-> Some(LsT)])),
     Req("predict", JObject([prefix |-> <<"l">>, cwd |-> <<"/","p">>])),
     Req("context", JObject([cwd |-> <<"/","p">>])),
     Req("search", JObject([pattern |-> <<"s"," ">>])),
     Req("delete", JObject([cmd |-> LsT])),
     Req("delete", JObject([cmd |-> LsX])),
     Req("frecent_add", JObject([path |-> PathAb])),
     Req("frecent_query", JObject([raw |-> TRUE])),
     ReqNoParams("ping")}

\* The lines whose params are missing, are no object, or lack a member the
\* method requires.
BadParamLines ==
    {ReqNoParams(m) : m \in ParamMethods}
    \cup {Req(m, JNumber) : m \in ParamMethods \ {"frecent_query"}}
    \cup {Req("frecent_query", JNumber)}
    \cup {Req("store", JObject([cmd |-> LsT])),
          Req("predict", JObject([cwd |-> <<"/","p">>])),
          Req("delete", JObject([cwd |-> <<"/","p">>]))}

\* The lines that do not parse as a Request: text that is not JSON, JSON
\* that is no object, and an object without a method.
UnparsableLines ==
    {NotJsonLine, JsonLine(JNumber), JsonLine(JObject([id |-> Some(1)]))}

\* The lines that name a method handle_request does not know.
UnknownMethodLines == {ReqNoParams("frobnicate"), Req("store_command", JNumber)}

\* Everything a client may send before it waits for the answer.
RequestLines ==
    ValidLines \cup BadParamLines \cup UnparsableLines \cup UnknownMethodLines
    \cup {InvalidUtf8Line}

(* ------------------------------- state -------------------------------- *)

VARIABLES
    db,      \* the database: one field per table
    now,     \* the clock (chrono_lite_timestamp)
    nops,    \* number of store operations made so far
    last,    \* the last operation: [op, ok, arg]
    passed,  \* history variable: the strings handed to successful
             \* store_command calls and not deleted since, with their role
    pairs,   \* history variable: per (prev, cur), the number of successful
             \* ingestions with prev_cmd = prev and cmd = cur
    clean,   \* history variable: no call has failed and none has deleted
    nfail,   \* number of calls in which a statement was made to fail
    exported,\* the response to the frecent_query of cmd_export_fasd, if made
    file,    \* the lines cmd_export_fasd wrote
    imp,     \* the database of the daemon cmd_import_fasd talks to
    pos,     \* number of lines of the file cmd_import_fasd has read
    tasks,   \* per connection: the request, where its handler is, and
             \* history fields (must, reads)
    mutex,   \* the task that holds the Mutex<Connection>, 0 when free
    returned,\* history variable: the store requests answered with success
    ver,     \* history variable: the number of writes made to the database
    schema,  \* the tables and indexes of the database file and the rows of
             \* its schema_version table
    migrated,\* history variable: the number of run_migrations calls made,
             \* the version the file started at, and the file before the
             \* last call
    cache    \* the PredictionCache: its entries (key, timestamp), its
             \* max_size, and the last reading of the monotonic clock

vars == <<db, now, nops, last, passed, pairs, clean, nfail, exported, file, imp, pos,
          tasks, mutex, returned, ver, schema, migrated, cache>>

\* The variables of the ingestion bookkeeping and of the export and import.
histVars == <<passed, pairs, clean, nfail>>
fasdVars == <<exported, file, imp, pos>>

\* The variables of the concurrent clients.
taskVars == <<tasks, mutex, returned, ver>>

\* The variables of the migrations, and the prediction cache, which no
\* request of the daemon reads or writes.
migVars == <<schema, migrated, cache>>

\* PredictionCache::new(1000) of PredictionEngine::new
DefaultCacheSize == 1000

\* PredictionCache::new
NewCache(max_size) == [entries |-> {}, max_size |-> max_size, instant |-> 0]

\* A connection nobody has opened yet.
IdleTask ==
    [pc |-> "idle", req |-> [method |-> "none"], must |-> {}, reads |-> <<>>,
     resp |-> <<>>]

\* The daemon's variables outside the database file.
InitDaemon ==
    /\ now = 0
    /\ nops = 0
    /\ last = [op |-> "none", ok |-> TRUE, arg |-> <<>>]
    /\ passed = {}
    /\ pairs = [pr \in Cmds \X Cmds |-> 0]
    /\ clean = TRUE
    /\ nfail = 0
    /\ exported = None
    /\ file = <<>>
    /\ imp = EmptyDb
    /\ pos = 0
    /\ tasks = [t \in Tasks |-> IdleTask]
    /\ mutex = 0
    /\ returned = {}
    /\ ver = 0

\* Database::open has created the file and run the migrations on it.
Init ==
    /\ InitDaemon
    /\ db = EmptyDb
    /\ schema = run_migrations(Store(NoSchema, EmptyDb), <<>>, 0).sch
    /\ migrated = [runs |-> 0, start |-> 0, before |-> Store(NoSchema, EmptyDb)]
    /\ cache = NewCache(DefaultCacheSize)

\* The clock moves on.
Tick ==
    /\ now < MaxTime
    /\ now' = now + 1
    /\ UNCHANGED <<migVars, db, nops, last, histVars, fasdVars, taskVars>>

\* The strings a store_command call was handed, each with its role.
PassedBy(p) ==
    {[argv |-> p.cmd, role |-> "cmd", with_prev |-> IsSome(p.prev_cmd)]}
    \cup (IF IsSome(p.prev_cmd)
          THEN {[argv |-> Unwrap(p.prev_cmd), role |-> "prev", with_prev |-> TRUE]}
          ELSE {})
    \cup (IF IsSome(p.prev2_cmd)
          THEN {[argv |-> Unwrap(p.prev2_cmd), role |-> "prev2",
                 with_prev |-> IsSome(p.prev_cmd)]}
          ELSE {})

\* A call of Database::store_command in which statement number fail fails
\* (0: none does).
StoreCommandWith(fail) ==
    /\ nops < MaxOps
    /\ \E p \in StoreParams :
         \E kinds \in KindsOf(p.cmd) :
            LET s == store_command(Conn(db, fail), p, now, kinds)
            IN  /\ db' = s.db
                /\ last' = [op |-> "store", ok |-> ~s.err, arg |-> p]
                /\ passed' = IF s.err THEN passed ELSE passed \cup PassedBy(p)
                /\ pairs' = IF ~s.err /\ IsSome(p.prev_cmd)
                            THEN [pairs EXCEPT ![<<Unwrap(p.prev_cmd), p.cmd>>] = @ + 1]
                            ELSE pairs
                /\ clean' = (clean /\ ~s.err)
    /\ nops' = nops + 1
    /\ nfail' = IF fail > 0 THEN nfail + 1 ELSE nfail
    /\ UNCHANGED <<migVars, now, fasdVars, taskVars>>

\* A call of Database::delete_command in which statement number fail fails
\* (0: none does).
DeleteCommandWith(fail) ==
    /\ nops < MaxOps
    /\ \E cmd \in Cmds :
            LET s == delete_command(Conn(db, fail), cmd)
            IN  /\ db' = s.db
                /\ last' = [op |-> "delete", ok |-> ~s.err,
                            arg |-> [cmd |-> cmd, id |-> command_id_of(db, cmd)]]
                /\ passed' = IF s.err THEN passed
                             ELSE {x \in passed : x.argv # cmd}
                /\ clean' = FALSE
    /\ nops' = nops + 1
    /\ nfail' = IF fail > 0 THEN nfail + 1 ELSE nfail
    /\ UNCHANGED <<migVars, now, pairs, fasdVars, taskVars>>

\* The "store" request.
StoreCommand == StoreCommandWith(0)

\* The "delete" request.
DeleteCommand == DeleteCommandWith(0)

\* The "store" request with a statement that returns an SQLite error.
StoreCommandFault ==
    /\ nfail < MaxFailures
    /\ \E fail \in 1..MaxFault : StoreCommandWith(fail)

\* The "delete" request with a statement that returns an SQLite error.
DeleteCommandFault ==
    /\ nfail < MaxFailures
    /\ \E fail \in 1..MaxFault : DeleteCommandWith(fail)

\* The store with every statement succeeding.
Next == StoreCommand \/ DeleteCommand

Spec == Init /\ [][Next]_vars

\* The store with statements that may fail.
NextFault == StoreCommand \/ DeleteCommand \/ StoreCommandFault \/ DeleteCommandFault

SpecFault == Init /\ [][NextFault]_vars

(* --------------------------- concurrent clients ----------------------- *)

\* What a read under the lock sees: the database, and with it the number of
\* writes made so far and whether a delete has run.
View == [db |-> db, ver |-> ver, clean |-> clean]

\* main accepts a connection and spawns handle_client, which reads the one
\* request of the connection.  must records the stores answered so far.  The
\* tasks differ in nothing but their name: the connection goes to the first
\* that is idle.
Accept(t) ==
    /\ tasks[t].pc = "idle"
    /\ \A u \in Tasks : u < t => tasks[u].pc # "idle"
    /\ nops < MaxOps
    /\ \E rq \in ClientRequests :
            tasks' = [tasks EXCEPT ![t] =
                        [pc |-> "request", req |-> rq, must |-> returned,
                         reads |-> <<>>, resp |-> <<>>]]
    /\ nops' = nops + 1
    /\ UNCHANGED <<migVars, db, now, last, histVars, fasdVars, mutex, returned, ver>>

\* self.conn.lock(): at the start of store_command, delete_command and
\* predict, in get_arg_suggestions, and where predict takes the lock again.
Lock(t) ==
    /\ tasks[t].pc \in {"request", "args", "main"}
    /\ mutex = 0
    /\ mutex' = t
    /\ tasks' = [tasks EXCEPT ![t].pc =
                    CASE @ = "request" -> "locked"
                      [] @ = "args" -> "args_locked"
                      [] @ = "main" -> "main_locked"]
    /\ UNCHANGED <<migVars, db, now, nops, last, histVars, fasdVars, returned, ver>>

\* Database::store_command under the lock; the guard is dropped on return.
StoreRun(t) ==
    /\ tasks[t].pc = "locked"
    /\ tasks[t].req.method = "store"
    /\ mutex = t
    /\ \E kinds \in KindsOf(tasks[t].req.params.cmd) :
            LET s == store_command(Conn(db, 0), tasks[t].req.params, now, kinds)
            IN  /\ db' = s.db
                /\ tasks' = [tasks EXCEPT ![t].pc = "respond",
                                ![t].resp = [ok |-> ~s.err,
                                             id |-> last_insert_rowid(db.history),
                                             ver |-> ver + 1]]
    /\ ver' = ver + 1
    /\ mutex' = 0
    /\ UNCHANGED <<migVars, now, nops, last, histVars, fasdVars, returned>>

\* Database::delete_command under the lock.
DeleteRun(t) ==
    /\ tasks[t].pc = "locked"
    /\ tasks[t].req.method = "delete"
    /\ mutex = t
    /\ LET s == delete_command(Conn(db, 0), tasks[t].req.params.cmd)
       IN  /\ db' = s.db
           /\ tasks' = [tasks EXCEPT ![t].pc = "respond", ![t].resp = [ok |-> ~s.err]]
    /\ ver' = ver + 1
    /\ clean' = FALSE
    /\ mutex' = 0
    /\ UNCHANGED <<migVars, now, nops, last, passed, pairs, nfail, fasdVars, returned>>

\* Database::predict up to its first return or to drop(conn): a prefix that
\* expects arguments gives the lock up, any other is answered by
\* predict_with_conn.
PredictStart(t) ==
    /\ tasks[t].pc = "locked"
    /\ tasks[t].req.method = "predict"
    /\ mutex = t
    /\ IF expecting_args(tasks[t].req.params.prefix)
       THEN tasks' = [tasks EXCEPT ![t].pc = "args"]
       ELSE \E suggestions \in predict_with_conn(db, tasks[t].req.params, Hostname, now) :
                tasks' = [tasks EXCEPT ![t].pc = "respond",
                                       ![t].reads = Append(@, View),
                                       ![t].resp = [ok |-> TRUE, suggestions |-> suggestions]]
    /\ mutex' = 0
    /\ UNCHANGED <<migVars, db, now, nops, last, histVars, fasdVars, returned, ver>>

\* Database::get_arg_suggestions under its own lock: its suggestions are
\* the answer unless there are none.
PredictArgs(t) ==
    /\ tasks[t].pc = "args_locked"
    /\ mutex = t
    /\ \E suggestions \in get_arg_suggestions(db, tasks[t].req.params.prefix,
                              tasks[t].req.params.cwd, tasks[t].req.params.limit) :
            tasks' = [tasks EXCEPT ![t].pc = IF suggestions # <<>> THEN "respond" ELSE "main",
                                   ![t].reads = Append(@, View),
                                   ![t].resp = [ok |-> TRUE, suggestions |-> suggestions]]
    /\ mutex' = 0
    /\ UNCHANGED <<migVars, db, now, nops, last, histVars, fasdVars, returned, ver>>

\* predict_with_conn under the lock taken again.
PredictMain(t) ==
    /\ tasks[t].pc = "main_locked"
    /\ mutex = t
    /\ \E suggestions \in predict_with_conn(db, tasks[t].req.params, Hostname, now) :
            tasks' = [tasks EXCEPT ![t].pc = "respond",
                                   ![t].reads = Append(@, View),
                                   ![t].resp = [ok |-> TRUE, suggestions |-> suggestions]]
    /\ mutex' = 0
    /\ UNCHANGED <<migVars, db, now, nops, last, histVars, fasdVars, returned, ver>>

\* handle_client writes the response, shuts the connection down and ends.
Respond(t) ==
    /\ tasks[t].pc = "respond"
    /\ tasks' = [tasks EXCEPT ![t] = IdleTask]
    /\ returned' = IF tasks[t].req.method = "store" /\ tasks[t].resp.ok
                   THEN returned \cup {[id |-> tasks[t].resp.id,
                                        ver |-> tasks[t].resp.ver,
                                        params |-> tasks[t].req.params]}
                   ELSE returned
    /\ UNCHANGED <<migVars, db, now, nops, last, histVars, fasdVars, mutex, ver>>

\* The daemon serving its connections, each in a task of its own.
NextConc ==
    \E t \in Tasks :
        \/ Accept(t)
        \/ Lock(t)
        \/ StoreRun(t)
        \/ DeleteRun(t)
        \/ PredictStart(t)
        \/ PredictArgs(t)
        \/ PredictMain(t)
        \/ Respond(t)

SpecConc == Init /\ [][NextConc]_vars

(* --------------------------- frecency requests ------------------------ *)

\* The "frecent_add" request: Database::frecent_add.  last records whether
\* the aging step ran, the sum of ranks it was decided on, and the rows of
\* the path before the call and between the upsert and the aging, and the
\* timestamp the upsert wrote.
FrecentAdd ==
    /\ nops < MaxOps
    /\ \E p \in FrecentAddParams :
            LET now_ == IF IsSome(p.timestamp) THEN Unwrap(p.timestamp) ELSE now
                s1 == frecent_upsert(Conn(db, 0), p.path, p.path_type, p.rank, now_)
                s == frecent_add_with_conn(Conn(db, 0), p.path, p.path_type,
                                           p.rank, p.timestamp, now)
            IN  /\ db' = s.db
                /\ last' = [op |-> "frecent_add", ok |-> ~s.err, arg |-> p,
                            fired |-> aging_fires(s1, p.path_type),
                            total |-> SumRank({r \in s1.db.frecent_paths :
                                                 r.path_type = p.path_type}),
                            written |-> now_,
                            existing |-> {r \in db.frecent_paths :
                                r.path = p.path /\ r.path_type = p.path_type},
                            upserted |-> {r \in s1.db.frecent_paths :
                                r.path = p.path /\ r.path_type = p.path_type}]
    /\ nops' = nops + 1
    /\ UNCHANGED <<migVars, now, histVars, fasdVars, taskVars>>

\* The "frecent_query" request: Database::frecent_query.
FrecentQuery ==
    /\ \E p \in FrecentQueryParams :
         \E candidates \in candidate_orders(candidate_rows(db, p.path_type)) :
            last' = [op |-> "frecent_query", ok |-> TRUE, arg |-> p,
                     results |-> frecent_query(candidates, p, now)]
    /\ UNCHANGED <<migVars, db, now, nops, histVars, fasdVars, taskVars>>

\* cmd_export_fasd: one frecent_query for everything in raw mode, written
\* to the file.
ExportFasd ==
    /\ exported = None
    /\ \E candidates \in candidate_orders(candidate_rows(db, None)) :
            LET results == frecent_query(candidates,
                               [terms |-> <<>>, path_type |-> None,
                                limit |-> ExportLimit, raw |-> TRUE], now)
            IN  /\ exported' = Some(results)
                /\ file' = fasd_lines(results)
    /\ UNCHANGED <<migVars, db, now, nops, last, histVars, imp, pos, taskVars>>

\* One round of the loop of cmd_import_fasd: the next line of the file is
\* sent as a frecent_add request to the daemon of the importing side.
ImportFasdLine ==
    /\ exported # None
    /\ pos < Len(file)
    /\ \E is_dir \in BOOLEAN :
            LET rq == import_request(file[pos + 1], is_dir)
                s == frecent_add_with_conn(Conn(imp, 0), rq.path, rq.path_type,
                                           rq.rank, rq.timestamp, now)
            IN  imp' = s.db
    /\ pos' = pos + 1
    /\ UNCHANGED <<migVars, db, now, nops, last, histVars, exported, file, taskVars>>

\* The frecency requests.
NextFrec == FrecentAdd \/ FrecentQuery \/ Tick

SpecFrec == Init /\ [][NextFrec]_vars

\* The frecency store, its export and the import into another store.
NextFasd == FrecentAdd \/ ExportFasd \/ ImportFasdLine

SpecFasd == Init /\ [][NextFasd]_vars

(* ----------------------------- one client ---------------------------- *)

\* The "store" request of the client that asks for predictions.
PredictStore ==
    /\ nops < MaxOps
    /\ \E p \in PredictStoreParams :
            LET s == store_command(Conn(db, 0), p, now, <<"x">>)
            IN  /\ db' = s.db
                /\ last' = [op |-> "store", ok |-> ~s.err, arg |-> p]
    /\ nops' = nops + 1
    /\ UNCHANGED <<migVars, now, histVars, fasdVars, taskVars>>

\* Its "delete" request, of "ls /t".
PredictDelete ==
    /\ nops < MaxOps
    /\ LET s == delete_command(Conn(db, 0), LsT)
       IN  /\ db' = s.db
           /\ last' = [op |-> "delete", ok |-> ~s.err,
                       arg |-> [cmd |-> LsT, id |-> command_id_of(db, LsT)]]
    /\ nops' = nops + 1
    /\ UNCHANGED <<migVars, now, histVars, fasdVars, taskVars>>

\* Its "frecent_add" request, of the directory "/p".
PredictFrecentAdd ==
    /\ nops < MaxOps
    /\ LET s == frecent_add_with_conn(Conn(db, 0), <<"/","p">>, "d", None, None, now)
       IN  /\ db' = s.db
           /\ last' = [op |-> "frecent_add", ok |-> ~s.err,
                       arg |-> FA(<<"/","p">>, "d", None, None)]
    /\ nops' = nops + 1
    /\ UNCHANGED <<migVars, now, histVars, fasdVars, taskVars>>

\* The "predict" request: Database::predict, no other client running.
Predict ==
    /\ \E p \in SinglePredictParams :
         \E r \in predict(db, p, Hostname, now) :
            last' = [op |-> "predict", ok |-> TRUE, arg |-> p,
                     suggestions |-> r.suggestions, branch |-> r.branch]
    /\ UNCHANGED <<migVars, db, now, nops, histVars, fasdVars, taskVars>>

NextPredict == PredictStore \/ PredictDelete \/ PredictFrecentAdd \/ Predict

SpecPredict == Init /\ [][NextPredict]_vars

(* ------------------------------- scoring ------------------------------ *)

\* The scoring of predict_with_conn on two rows that differ in their n-gram
\* backing only: "ls /t" has a trigram row and a bigram row of frequency f,
\* "ls -l" a bigram row of frequency f.
ScoreNgram ==
    /\ \E f \in NgramFreqs, row \in ScoreRows, w \in {DefaultWeights, HeavyWeights},
          boosted \in BOOLEAN :
            LET tri == << [argv |-> LsT, frequency |-> f] >>
                bi == << [argv |-> LsT, frequency |-> f], [argv |-> LsL, frequency |-> f] >>
                boost == IF boosted THEN w.frecent_boost_max ELSE 0
            IN  last' = [op |-> "score_ngram", ok |-> TRUE,
                         arg |-> [f |-> f, row |-> row, w |-> w, boost |-> boost],
                         tri_backed |-> suggestion_score(row, ngram_bonus(tri, bi, LsT),
                                                         boost, w, now),
                         bi_backed |-> suggestion_score(row, ngram_bonus(tri, bi, LsL),
                                                        boost, w, now),
                         bi_sum |-> weighted_sum(row, ngram_bonus(tri, bi, LsL),
                                                 boost, w, now)]
    /\ UNCHANGED <<migVars, db, now, nops, histVars, fasdVars, taskVars>>

\* The row of command cmd in the rows of the main query.
row_of(rows, cmd) == CHOOSE r \in rows : r.cmd = cmd

\* The scoring of predict_with_conn on three commands that differ in where
\* they were run only: in cwd, in a directory above cwd, and in "/q".
ScoreDirs ==
    /\ \E cwd \in ScoreCwds, n \in {1, 2}, lu \in {0, 0 - 30 * Day}, status \in {0, 1},
          w \in {DefaultWeights, HeavyWeights}, bonus \in {0, ScoreScale} :
         \E anc \in Ancestors(cwd) :
            LET p == PP(<<"l">>, cwd, <<>>, DefaultLimit, FALSE)
                rows == main_rows(DirDb(cwd, anc, n, lu, status), p, Hostname)
            IN  last' = [op |-> "score_dirs", ok |-> TRUE,
                         arg |-> [cwd |-> cwd, anc |-> anc, w |-> w],
                         exact |-> suggestion_score(row_of(rows, LsT), bonus, 0, w, now),
                         ancestor |-> suggestion_score(row_of(rows, LsL), bonus, 0, w, now),
                         neither |-> suggestion_score(row_of(rows, <<"l">>), bonus, 0, w, now),
                         ancestor_sum |-> weighted_sum(row_of(rows, LsL), bonus, 0, w, now),
                         neither_sum |-> weighted_sum(row_of(rows, <<"l">>), bonus, 0, w, now),
                         penalty |-> failure_penalty(row_of(rows, LsL), w)]
    /\ UNCHANGED <<migVars, db, now, nops, histVars, fasdVars, taskVars>>

NextScore == ScoreNgram \/ ScoreDirs

SpecScore == Init /\ [][NextScore]_vars

(* ------------------------------ migrations ---------------------------- *)

\* The daemon is started on a file it finds.
InitMig ==
    /\ InitDaemon
    /\ \E st \in StartingStores :
            /\ db = st.data
            /\ schema = st.sch
            /\ migrated = [runs |-> 0, start |-> get_schema_version(st), before |-> st]
    /\ cache = NewCache(DefaultCacheSize)

\* Database::migrate: run_migrations on the connection.
RunMigrations ==
    /\ nops < MaxOps
    /\ \E groups \in bootstrap_groups(db) :
            LET st == run_migrations(Store(schema, db), groups, now)
            IN  /\ db' = st.data
                /\ schema' = st.sch
    /\ migrated' = [migrated EXCEPT !.runs = @ + 1, !.before = Store(schema, db)]
    /\ nops' = nops + 1
    /\ UNCHANGED <<now, last, histVars, fasdVars, taskVars, cache>>

NextMig == RunMigrations \/ Tick

SpecMig == InitMig /\ [][NextMig]_vars

(* --------------------------- JSON-RPC requests ------------------------ *)

\* At most MaxRequests of the requests of a run make a call that writes.
MaxRequests == 2

\* The lines whose request makes a call that writes to the store.
WritingLines ==
    {l \in ValidLines :
        Unwrap(from_str_Request(l)).method \in {"store", "delete", "frecent_add"}}

\* One connection: main accepts it and handle_client serves it, with
\* statement number fail failing (0: none does).  last records the line, the
\* database before the exchange and what was written to the client.  nops
\* counts the calls that write.
HandleClientWith(lines, fail, fs) ==
    /\ \E line \in lines :
         \E kinds \in fs :
            \E x \in handle_client(line, db, fail, now, kinds) :
                /\ db' = x.db
                /\ last' = [op |-> "rpc", ok |-> x.responses # <<>>, arg |-> line,
                            before |-> db, responses |-> x.responses,
                            fail |-> fail]
                /\ nops' = IF line \in WritingLines THEN nops + 1 ELSE nops
    /\ nfail' = IF fail > 0 THEN nfail + 1 ELSE nfail
    /\ UNCHANGED <<migVars, now, passed, pairs, clean, fasdVars, taskVars>>

\* A client sends a line that makes no call that writes, and reads the
\* answer if there is one.
HandleClient == HandleClientWith(RequestLines \ WritingLines, 0, {<<"x">>})

\* A client sends a store, delete or frecent_add request.
HandleWrite ==
    /\ nops < MaxRequests
    /\ HandleClientWith(WritingLines, 0, {<<"d">>, <<"x">>})

\* A client connects and closes without sending.
ClientCloses == HandleClientWith({EofLine}, 0, {<<"x">>})

\* A client sends a store, delete or frecent_add request and a statement of
\* the call returns an SQLite error.
HandleWriteFault ==
    /\ nops < MaxRequests
    /\ nfail < MaxFailures
    /\ \E fail \in 1..MaxFault : HandleClientWith(WritingLines, fail, {<<"d">>, <<"x">>})

NextRpc == HandleClient \/ HandleWrite \/ ClientCloses \/ HandleWriteFault

SpecRpc == Init /\ [][NextRpc]_vars

(* ------------------------- claims: ingestion -------------------------- *)

RowsWithArgv(argv) == {c \in db.commands : c.argv = argv}

UniqueArgv == \A c1, c2 \in db.commands : c1.argv = c2.argv => c1 = c2

\* C1 as stated: no two Command rows share an argv, and every string handed
\* to a successful store_command as cmd, prev_cmd or prev2_cmd, and not
\* deleted since, has exactly one Command row.
C1_AsStated ==
    /\ UniqueArgv
    /\ \A x \in passed : Cardinality(RowsWithArgv(x.argv)) = 1

\* C1 amended: no two Command rows share an argv, and every string handed to
\* a successful store_command as cmd, as prev_cmd, or as prev2_cmd together
\* with a prev_cmd, and not deleted since, has exactly one Command row (a
\* prev2_cmd that comes without prev_cmd is not resolved).
C1_CommandDedup ==
    /\ UniqueArgv
    /\ \A x \in passed :
          (x.role # "prev2" \/ x.with_prev)
              => Cardinality(RowsWithArgv(x.argv)) = 1

\* A command stored twice, with a string handed over as prev2_cmd with a
\* prev_cmd.
C1_Witness ==
    /\ \E h1, h2 \in db.history : h1 # h2 /\ h1.command_id = h2.command_id
    /\ \E x \in passed : x.role = "prev2" /\ x.with_prev

\* C2 as stated: a store_command call that fails leaves the store exactly as
\* it was before the call.
C2_AsStated ==
    [][(nops' # nops /\ last'.op = "store" /\ ~last'.ok) => db' = db]_vars

BigramRows(pr) ==
    {g \in db.ngrams_2 : /\ command_id_of(db, pr[1]) # 0
                         /\ g.prev_command_id = command_id_of(db, pr[1])
                         /\ g.command_id = command_id_of(db, pr[2])}

\* C3: after successful store_command calls and no deletion, for every pair
\* (prev, cur) a Bigram row exists iff some ingestion had prev_cmd = prev and
\* cmd = cur, there is one such row, and its frequency is the number of those
\* ingestions; no other Bigram row exists and every frequency is >= 1.
C3_BigramCounts ==
    clean =>
        /\ \A pr \in Cmds \X Cmds :
              IF pairs[pr] = 0 THEN BigramRows(pr) = {}
              ELSE /\ Cardinality(BigramRows(pr)) = 1
                   /\ \A g \in BigramRows(pr) : g.frequency = pairs[pr]
        /\ \A g \in db.ngrams_2 :
              /\ g.frequency >= 1
              /\ \E pr \in Cmds \X Cmds : g \in BigramRows(pr)

\* A pair ingested twice.
C3_Witness ==
    /\ clean
    /\ \E pr \in Cmds \X Cmds :
          pairs[pr] >= 2 /\ \E g \in BigramRows(pr) : g.frequency >= 2

\* The ArgPattern rows an ingestion of cmd writes: those of its program and
\* subcommand whose value is one of its learnable arguments.
LearnedFrom(cmd) ==
    LET parsed == parse_command(cmd)
        learnable == extract_learnable_args(parsed)
    IN  {r \in db.arg_patterns :
            /\ r.program = parsed.program
            /\ r.subcommand = parsed.subcommand
            /\ \E i \in 1..Len(learnable) : learnable[i] = r.arg_value}

\* C4 as stated: after delete_command(c) succeeds, no Command row has
\* argv = c and no History, Bigram, Trigram, ParsedCommand or ArgPattern row
\* of c remains, whether or not c has a subcommand.
C4_AsStated ==
    (last.op = "delete" /\ last.ok) =>
        /\ RowsWithArgv(last.arg.cmd) = {}
        /\ \A h \in db.history : h.command_id # last.arg.id
        /\ \A g \in db.ngrams_2 :
              g.command_id # last.arg.id /\ g.prev_command_id # last.arg.id
        /\ \A g \in db.ngrams_3 :
              /\ g.command_id # last.arg.id
              /\ g.prev1_command_id # last.arg.id
              /\ g.prev2_command_id # last.arg.id
        /\ \A r \in db.parsed_commands : r.command_id # last.arg.id
        /\ LearnedFrom(last.arg.cmd) = {}

\* C8 as stated: at most one ArgPattern row per (program, subcommand,
\* arg_value, place_id), an absent subcommand included.
C8_AsStated ==
    \A r1, r2 \in db.arg_patterns :
        (/\ r1.program = r2.program
         /\ r1.subcommand = r2.subcommand
         /\ r1.arg_value = r2.arg_value
         /\ r1.place_id = r2.place_id) => r1 = r2

\* The rows of one path_type.
RowsOfType(path_type) == {r \in db.frecent_paths : r.path_type = path_type}

\* Whether the last request was a frecent_add whose aging step ran.
AgingFired == last.op = "frecent_add" /\ last.ok /\ last.fired

C7_AsStated == \A r \in db.frecent_paths : r.rank > 0

\* The rows among which frecent_query looked, and the paths among them that
\* each tier matches.
QueryRows == candidate_rows(db, last.arg.path_type)
Tier1Paths == {r.path : r \in {x \in QueryRows :
                  matches_ordered_substring(x.path, last.arg.terms, FALSE)}}
Tier2Paths == {r.path : r \in {x \in QueryRows :
                  matches_ordered_substring(x.path, last.arg.terms, TRUE)}}
Tier3Paths == {r.path : r \in {x \in QueryRows :
                  matches_fuzzy(x.path, last.arg.terms)}}
ResultPaths == {last.results[i].path : i \in 1..Len(last.results)}

\* C9: frecent_query with non-empty terms returns results of exactly one
\* tier, the first of (case-sensitive ordered substring, case-insensitive
\* ordered substring, fuzzy) that matches a candidate: when a candidate
\* matches Tier 1 every result matches Tier 1, when none does but one
\* matches Tier 2 every result matches Tier 2, and otherwise every result
\* matches Tier 3; up to the limit, all the paths of that tier are returned.
C9_FirstTierOnly ==
    (last.op = "frecent_query" /\ last.arg.terms # <<>>) =>
        LET tier == IF Tier1Paths # {} THEN Tier1Paths
                    ELSE IF Tier2Paths # {} THEN Tier2Paths
                    ELSE Tier3Paths
        IN  /\ ResultPaths \subseteq tier
            /\ Len(last.results) <= last.arg.limit
            /\ Len(last.results) < last.arg.limit => ResultPaths = tier

\* A query that a path matches in Tier 1, another only in Tier 2 and a third
\* only in Tier 3, and that returned a result.
C9_Witness ==
    /\ last.op = "frecent_query"
    /\ last.arg.terms # <<>>
    /\ Tier1Paths # {}
    /\ Tier2Paths \ Tier1Paths # {}
    /\ Tier3Paths \ Tier2Paths # {}
    /\ last.results # <<>>

\* Whether the import has read the whole exported file.
ImportDone == exported # None /\ pos = Len(file)

\* C10 as stated: after the export and the import of every exported line
\* into an empty store, every exported row has a row in the importing store
\* with the same path, path_type, rank and last_access.
C10_AsStated ==
    ImportDone =>
        \A i \in 1..Len(Unwrap(exported)) :
            LET e == Unwrap(exported)[i]
            IN  \E r \in imp.frecent_paths :
                    /\ r.path = e.path
                    /\ r.path_type = e.path_type
                    /\ r.rank = Unwrap(e.rank)
                    /\ r.last_access = Unwrap(e.last_access)

\* Whether the database d holds what the store request k wrote: the History
\* row of the id it returned, for its command, and the Bigram and Trigram
\* rows of its previous commands, with at least the frequency the stores in
\* must amount to.
HasWritesOf(d, k, must) ==
    LET cmd_id == command_id_of(d, k.params.cmd)
        prev_id == command_id_of(d, Unwrap(k.params.prev_cmd))
        prev2_id == command_id_of(d, Unwrap(k.params.prev2_cmd))
        same2 == {x \in must : /\ x.params.cmd = k.params.cmd
                               /\ x.params.prev_cmd = k.params.prev_cmd}
        same3 == {x \in same2 : x.params.prev2_cmd = k.params.prev2_cmd}
    IN  /\ cmd_id # 0
        /\ \E h \in d.history : h.id = k.id /\ h.command_id = cmd_id
        /\ IsSome(k.params.prev_cmd) =>
              /\ prev_id # 0
              /\ \E g \in d.ngrams_2 : /\ g.prev_command_id = prev_id
                                       /\ g.command_id = cmd_id
                                       /\ g.frequency >= Cardinality(same2)
        /\ (IsSome(k.params.prev_cmd) /\ IsSome(k.params.prev2_cmd)) =>
              /\ prev2_id # 0
              /\ \E g \in d.ngrams_3 : /\ g.prev2_command_id = prev2_id
                                       /\ g.prev1_command_id = prev_id
                                       /\ g.command_id = cmd_id
                                       /\ g.frequency >= Cardinality(same3)

\* C5: with client tasks running concurrently, every read a predict makes
\* of the store comes after the writes of every store request whose
\* response had been returned when the predict request was read, and, as
\* long as no delete has run, what it reads includes the History row and the
\* n-gram updates of each such store.
C5_PredictSeesReturnedStores ==
    \A t \in Tasks :
        tasks[t].req.method = "predict" =>
            \A i \in 1..Len(tasks[t].reads) :
                \A k \in tasks[t].must :
                    /\ tasks[t].reads[i].ver >= k.ver
                    /\ tasks[t].reads[i].clean =>
                          HasWritesOf(tasks[t].reads[i].db, k, tasks[t].must)

\* A predict that was read after a store with previous commands had been
\* answered, tried the argument suggestions, fell through to the main
\* branch and is about to be answered, while another write was made after
\* the predict was read and before its last read.
C5_Witness ==
    \E t \in Tasks :
        /\ tasks[t].req.method = "predict"
        /\ tasks[t].pc = "respond"
        /\ Len(tasks[t].reads) = 2
        /\ \E k \in tasks[t].must :
              /\ IsSome(k.params.prev2_cmd)
              /\ tasks[t].reads[2].ver > k.ver
              /\ tasks[t].reads[2].clean

(* ------------------------- claims: migrations ------------------------- *)

\* C11: a run_migrations call on a file at CURRENT_VERSION leaves the file
\* as it was (the same tables and indexes, the same schema_version rows, the
\* same data), and after two calls on a file that started at any version
\* 0 .. CURRENT_VERSION get_schema_version is CURRENT_VERSION.
C11_MigrationsIdempotent ==
    /\ (migrated.runs >= 1
          /\ get_schema_version(migrated.before) = CURRENT_VERSION)
        => Store(schema, db) = migrated.before
    /\ (migrated.runs >= 2 /\ migrated.start \in 0..CURRENT_VERSION)
        => get_schema_version(Store(schema, db)) = CURRENT_VERSION

\* A file of version 1 with history, migrated twice: the first call
\* bootstrapped frecent_paths, the second found it at CURRENT_VERSION.
C11_Witness ==
    /\ migrated.runs = 2
    /\ migrated.start = 1
    /\ db.frecent_paths # {}
    /\ get_schema_version(migrated.before) = CURRENT_VERSION
    /\ Store(schema, db) = migrated.before

(* ------------------------- claims: prediction ------------------------- *)

\* The commands with history on this host that the prefix of request p
\* matches.
Candidates(p) == {r.cmd : r \in main_rows(db, p, Hostname)}

\* C12: a list predict returns from the main branch has at most limit
\* entries, names no command twice, and is in non-increasing order of
\* score.
C12_PredictTopK ==
    (last.op = "predict" /\ last.branch = "main")
    => LET l == last.suggestions
       IN  /\ Len(l) <= last.arg.limit
           /\ \A i, j \in 1..Len(l) : i # j => l[i].cmd # l[j].cmd
           /\ \A i \in 1..(Len(l) - 1) : l[i].score >= l[i + 1].score

\* Two commands match the prefix and the limit is 1: one is returned.
C12_Witness ==
    /\ last.op = "predict"
    /\ last.branch = "main"
    /\ last.arg.limit = 1
    /\ Cardinality(Candidates(last.arg)) >= 2
    /\ Len(last.suggestions) = 1

\* C13 as stated: every suggestion predict returns starts with the prefix
\* of the request, letter for letter.
C13_AsStated ==
    last.op = "predict"
    => \A i \in 1..Len(last.suggestions) :
          starts_with(last.suggestions[i].cmd, last.arg.prefix)

\* The ArgPattern rows of the (program, subcommand) the prefix parses to.
ArgMatching(p) ==
    {r \in db.arg_patterns :
        /\ r.program = parse_command(p.prefix).program
        /\ r.subcommand = parse_command(p.prefix).subcommand}

\* The frequency of argument a over all places, and in the place of cwd.
TotalFreqOf(p, a) == SumFrequency({r \in ArgMatching(p) : r.arg_value = a})

DirFreqOf(p, a) ==
    SumFrequency({r \in ArgMatching(p) :
                    /\ r.arg_value = a
                    /\ \E pl \in db.places : /\ pl.host = Hostname
                                              /\ pl.dir = p.cwd
                                              /\ r.place_id = Some(pl.id)})

\* The number of entries a list of n candidates is cut to.
UpTo(limit, n) == IF n < limit THEN n ELSE limit

HitFrequency(rows, cmd) ==
    IF \E i \in 1..Len(rows) : rows[i].argv = cmd
    THEN rows[CHOOSE i \in 1..Len(rows) : rows[i].argv = cmd].frequency
    ELSE 0

\* C15 as stated: in the n-gram bonus table of a predict, a command with a
\* trigram hit of frequency f3 and a bigram hit of frequency f2 has the
\* higher of the trigram bonus of f3 and the bigram bonus of f2.
C15_AsStated ==
    last.op = "predict"
    => \A ng \in ngram_lookups(db, last.arg) :
          \A c \in db.commands :
             (HitFrequency(ng[1], c.argv) > 0 /\ HitFrequency(ng[2], c.argv) > 0)
             => ngram_bonus(ng[1], ng[2], c.argv)
                  = MaxInt(trigram_bonus(HitFrequency(ng[1], c.argv)),
                           bigram_bonus(HitFrequency(ng[2], c.argv)))

InHierarchy(cwd, dir) ==
    /\ dir \in Ancestors(cwd) \ {<<"/">>}
    /\ Cardinality({j \in (Len(dir) + 1)..Len(cwd) : cwd[j] = "/"}) <= 3

DeleteOf(line) ==
    LET request == from_str_Request(line)
    IN  IF IsSome(request) /\ Unwrap(request).method = "delete"
           /\ IsSome(Unwrap(request).params)
        THEN LET dp == from_value_DeleteParams(Unwrap(Unwrap(request).params))
             IN  IF IsSome(dp) THEN Some(Unwrap(dp).cmd) ELSE None
        ELSE None

\* C18: a "delete" request for a command string that has no Command row is
\* answered with one response, the RPC error -32000, whose message is
\* "Delete failed: Command not found: " followed by that command string, and
\* leaves every table as it was.
C18_DeleteUnknown ==
    (/\ last.op = "rpc"
     /\ IsSome(DeleteOf(last.arg))
     /\ command_id_of(last.before, Unwrap(DeleteOf(last.arg))) = 0)
    => /\ last.responses =
            <<Response_error(-32000,
                  <<"Delete failed: ", "Command not found: ",
                    Unwrap(DeleteOf(last.arg))>>)>>
       /\ db = last.before

\* A store holds rows, none of them for "ls /t" (it was never stored, or was
\* deleted), and a delete of "ls /t" has just been refused with the error that
\* names it.
C18_Witness ==
    /\ last.op = "rpc"
    /\ DeleteOf(last.arg) = Some(LsT)
    /\ last.fail = 0
    /\ command_id_of(last.before, LsT) = 0
    /\ last.before.places # {}
    /\ Len(last.responses) = 1
    /\ last.responses[1].error =
           Some([code |-> -32000,
                 message |-> <<"Delete failed: ", "Command not found: ", LsT>>])
    /\ db = last.before

\* The params of a request as the struct of its method, None when they do
\* not deserialize.
ParamsOf(request) ==
    LET v == Unwrap(request.params)
    IN  CASE request.method = "store" -> from_value_StoreParams(v)
          [] request.method = "predict" -> from_value_PredictParams(v)
          [] request.method = "context" -> from_value_ContextParams(v)
          [] request.method = "search" -> from_value_SearchParams(v)
          [] request.method = "delete" -> from_value_DeleteParams(v)
          [] request.method = "frecent_add" -> from_value_FrecentAddParams(v)
          [] OTHER -> from_value_FrecentQueryParams(v)

\* What the line of the last exchange should be answered with: the code of
\* the error for a line that does not parse, names no known method or has
\* bad params, and 0 for a request that reaches the store.
ExpectedCode(line) ==
    LET request == from_str_Request(line)
    IN  IF line.read # "ok" \/ ~IsSome(request) THEN -32700
        ELSE IF Unwrap(request).method \notin KnownMethods THEN -32601
        ELSE IF /\ Unwrap(request).method \in ParamMethods
                /\ (~IsSome(Unwrap(request).params)
                    \/ ~IsSome(ParamsOf(Unwrap(request))))
        THEN -32602
        ELSE 0

\* The one response r is what the spec gives the line: a result or an error
\* and not both; the error of the line's kind with the store as it was; for
\* a request that reaches the store a result or the error -32000, the error
\* whenever the call failed.
AnswersLine(line, responses, before, after, failed) ==
    /\ Len(responses) = 1
    /\ LET r == responses[1]
           code == ExpectedCode(line)
       IN  /\ IsSome(r.result) # IsSome(r.error)
           /\ code # 0 => /\ IsSome(r.error)
                          /\ Unwrap(r.error).code = code
                          /\ after = before
           /\ code = 0 => /\ IsSome(r.error) => Unwrap(r.error).code = -32000
                          /\ failed => IsSome(r.error)

\* C19, as stated: every line a client sends is answered with exactly one
\* response, which carries a result or an error and never both: -32700 for a
\* line that is not valid request JSON, -32601 for an unknown method, -32602
\* for missing or ill-typed params, all three with the store unmodified, and
\* -32000 for a failure of the store layer.
C19_AsStated ==
    (last.op = "rpc" /\ last.arg.read # "eof")
    => AnswersLine(last.arg, last.responses, last.before, db,
                   /\ last.fail = 1
                   /\ /\ IsSome(from_str_Request(last.arg))
                      /\ Unwrap(from_str_Request(last.arg)).method
                            \in {"store", "delete", "frecent_add"})

(* --------------------- claims: referential integrity ------------------ *)

CommandExists(id) == \E c \in db.commands : c.id = id

PlaceExists(id) == \E p \in db.places : p.id = id

\* C20: in every state reached by store_command and delete_command calls in
\* any order, the command_id and place_id of every History row are ids of
\* rows of commands and places, and every id in a row of ngrams_2 and
\* ngrams_3 is the id of a row of commands.
C20_ReferentialIntegrity ==
    /\ \A h \in db.history : CommandExists(h.command_id) /\ PlaceExists(h.place_id)
    /\ \A g \in db.ngrams_2 :
            CommandExists(g.command_id) /\ CommandExists(g.prev_command_id)
    /\ \A g \in db.ngrams_3 :
            /\ CommandExists(g.command_id)
            /\ CommandExists(g.prev1_command_id)
            /\ CommandExists(g.prev2_command_id)

\* A command that had been stored after a previous command, so that a bigram
\* row named it, has just been deleted, and history rows of another command
\* remain.
C20_Witness ==
    /\ last.op = "delete"
    /\ last.ok
    /\ last.arg.id # 0
    /\ \E pr \in Cmds \X Cmds :
            pairs[pr] > 0 /\ (pr[1] = last.arg.cmd \/ pr[2] = last.arg.cmd)
    /\ db.history # {}
    /\ db.commands # {}

(* ----------------------- claims: parsed commands ---------------------- *)

\* The rows of parsed_commands for one command.
ParsedRowsOf(id) == {r \in db.parsed_commands : r.command_id = id}

\* C21, as stated: every row of commands has exactly one row of
\* parsed_commands, also when the command was first created because a store
\* named it as prev_cmd or prev2_cmd.
C21_AsStated ==
    \A c \in db.commands : Cardinality(ParsedRowsOf(c.id)) = 1

(* --------------------------- pure functions --------------------------- *)

\* The daemon is up on an empty store, and one input of a function under
\* study has been chosen from inputs.
InitPure(inputs) ==
    /\ now = 0
    /\ nops = 0
    /\ last \in {[op |-> "input", ok |-> TRUE, arg |-> x] : x \in inputs}
    /\ passed = {}
    /\ pairs = [pr \in Cmds \X Cmds |-> 0]
    /\ clean = TRUE
    /\ nfail = 0
    /\ exported = None
    /\ file = <<>>
    /\ imp = EmptyDb
    /\ pos = 0
    /\ tasks = [t \in Tasks |-> IdleTask]
    /\ mutex = 0
    /\ returned = {}
    /\ ver = 0
    /\ db = EmptyDb
    /\ schema = run_migrations(Store(NoSchema, EmptyDb), <<>>, 0).sch
    /\ migrated = [runs |-> 0, start |-> 0, before |-> Store(NoSchema, EmptyDb)]
    /\ cache = NewCache(DefaultCacheSize)

\* The strings over alphabet of length n, and of length at most n.
RECURSIVE StringsOfLen(_, _)
StringsOfLen(alphabet, n) ==
    IF n = 0 THEN {<<>>}
    ELSE {<<c>> \o s : c \in alphabet, s \in StringsOfLen(alphabet, n - 1)}

StringsUpTo(alphabet, n) == UNION {StringsOfLen(alphabet, k) : k \in 0..n}

(* ------------------------------ the parser ---------------------------- *)

\* The command lines given to parse_command: a letter, the two separators
\* of the tokenizer and the dash of a flag, up to MaxCmdLen characters.
MaxCmdLen == 4

ParseChars == {"a", " ", "\t", "-"}

ParseInputs == StringsUpTo(ParseChars, MaxCmdLen)

\* parse_command on the chosen string, and what is asked of the result.
ParseCommand ==
    /\ last.op = "input"
    /\ LET parsed == parse_command(last.arg)
       IN  last' = [op |-> "parse", ok |-> TRUE, arg |-> last.arg,
                    parsed |-> parsed, partial |-> is_partial(parsed),
                    learnable |-> extract_learnable_args(parsed)]
    /\ UNCHANGED <<migVars, db, now, nops, histVars, fasdVars, taskVars>>

NextParse == ParseCommand

SpecParse == InitPure(ParseInputs) /\ [][NextParse]_vars

(* --------------------------- claims: parser --------------------------- *)

\* C22, as stated: parse_command(s) is partial if and only if s ends with a
\* whitespace character, a space or a tab.
C22_AsStated ==
    last.op = "parse"
    => (last.partial <=> (last.arg # <<>> /\ last.arg[Len(last.arg)] \in {" ", "\t"}))

\* C22: parse_command(s) is partial if and only if the last character of s is
\* a space; a string that ends with a tab is not partial.
C22_PartialIffSpace ==
    last.op = "parse"
    => (last.partial <=> (last.arg # <<>> /\ last.arg[Len(last.arg)] = " "))

\* "a " has been parsed: the program is "a" and the command is partial.
C22_Witness ==
    /\ last.op = "parse"
    /\ last.arg = <<"a", " ">>
    /\ last.parsed.program = <<"a">>
    /\ last.partial

(* ----------------------- claims: frecency queries --------------------- *)

\* The rows of the path_type a query asks for: all rows when it asks for
\* none.
RequestedRows(path_type) ==
    IF IsSome(path_type)
    THEN {r \in db.frecent_paths : r.path_type = Unwrap(path_type)}
    ELSE db.frecent_paths

\* The row a result stands for.
RowOfResult(x) ==
    CHOOSE r \in db.frecent_paths : r.path = x.path /\ r.path_type = x.path_type

\* The rows of the requested type that the last query did not return.
LeftOut ==
    {r \in RequestedRows(last.arg.path_type) :
        ~\E i \in 1..Len(last.results) :
            last.results[i].path = r.path /\ last.results[i].path_type = r.path_type}

\* C23: a frecent_query with empty terms returns min(limit, n) of the n rows
\* of the requested path_type (of all rows when none is requested), each
\* once and with its frecency score, in non-increasing order of score, and
\* no row that is left out has a higher score than a row that is returned.
C23_TopByScore ==
    (last.op = "frecent_query" /\ last.arg.terms = <<>>)
    => LET rows == RequestedRows(last.arg.path_type)
           res == last.results
       IN  /\ Len(res) = MinInt(last.arg.limit, Cardinality(rows))
           /\ \A i \in 1..Len(res) :
                \E r \in rows : /\ r.path = res[i].path
                                /\ r.path_type = res[i].path_type
                                /\ res[i].score
                                     = frecency_score(r.rank, r.last_access, now)
           /\ \A i, j \in 1..Len(res) :
                (res[i].path = res[j].path /\ res[i].path_type = res[j].path_type)
                => i = j
           /\ \A i \in 1..(Len(res) - 1) : res[i].score >= res[i + 1].score
           /\ \A r \in LeftOut : \A i \in 1..Len(res) :
                frecency_score(r.rank, r.last_access, now) <= res[i].score

\* A query with empty terms and limit 1 over both types has returned a row
\* and left out one of a higher rank and a lower score.
C23_Witness ==
    /\ last.op = "frecent_query"
    /\ last.arg.terms = <<>>
    /\ last.arg.limit = 1
    /\ Len(last.results) = 1
    /\ \E r \in LeftOut :
        /\ r.rank > RowOfResult(last.results[1]).rank
        /\ frecency_score(r.rank, r.last_access, now) < last.results[1].score

(* ----------------------- claims: frecency imports --------------------- *)

\* Whether the last request was a frecent_add for a path that had a row.
AddedToExisting == last.op = "frecent_add" /\ last.ok /\ last.existing # {}

\* C24 as stated: a frecent_add with a rank override, a timestamp override or
\* both, for a path that has a row, leaves the row before aging with the
\* larger of its rank and the rank override, the larger of its last_access
\* and the timestamp override, neither of them decreased, and access_count
\* one higher.
C24_AsStated ==
    (AddedToExisting /\ (IsSome(last.arg.rank) \/ IsSome(last.arg.timestamp)))
    => \A r0 \in last.existing :
         /\ Cardinality(last.upserted) = 1
         /\ \A r1 \in last.upserted :
              /\ IsSome(last.arg.rank)
                 => r1.rank = MaxInt(r0.rank, Unwrap(last.arg.rank))
              /\ IsSome(last.arg.timestamp)
                 => r1.last_access
                      = MaxInt(r0.last_access, Unwrap(last.arg.timestamp))
              /\ r1.rank >= r0.rank
              /\ r1.last_access >= r0.last_access
              /\ r1.access_count = r0.access_count + 1

\* C24 corrected: a frecent_add with a rank override (with or without a
\* timestamp override), for a path that has a row, leaves the row before
\* aging with the larger of its rank and the rank override and the larger of
\* its last_access and the timestamp written (the timestamp override, or the
\* current time without one), and access_count one higher.
C24_ImportKeepsMax ==
    (AddedToExisting /\ IsSome(last.arg.rank))
    => \A r0 \in last.existing :
         /\ Cardinality(last.upserted) = 1
         /\ IsSome(last.arg.timestamp)
            => last.written = Unwrap(last.arg.timestamp)
         /\ \A r1 \in last.upserted :
              /\ r1.rank = MaxInt(r0.rank, Unwrap(last.arg.rank))
              /\ r1.last_access = MaxInt(r0.last_access, last.written)
              /\ r1.rank >= r0.rank
              /\ r1.last_access >= r0.last_access
              /\ r1.access_count = r0.access_count + 1

\* An import with a rank under the row's rank and a timestamp before the
\* row's last access.
C24_Witness ==
    /\ AddedToExisting
    /\ IsSome(last.arg.rank)
    /\ IsSome(last.arg.timestamp)
    /\ \E r0 \in last.existing :
        /\ Unwrap(last.arg.rank) < r0.rank
        /\ Unwrap(last.arg.timestamp) < r0.last_access

(* ----------------------- claims: the memory bound --------------------- *)

\* The sum of rank over the rows of the path_type of the last frecent_add.
SumOfBumpedType == SumRank(RowsOfType(last.arg.path_type))

LsSix == <<"l","s"," ","a"," ","b"," ","c"," ","d"," ","e"," ","f">>

\* "ls -l a b c d e f": a flag, then the same six arguments.
LsFlagSix == <<"l","s"," ","-","l"," ","a"," ","b"," ","c"," ","d"," ","e"," ","f">>

\* What the filesystem says of the arguments of the two commands: all of
\* them exist; the first is missing; the first two are missing; the third
\* is neither a file nor a directory; only the last one exists.
KindsOfSix ==
    {<<"d", "f", "d", "f", "d", "d">>,
     <<"x", "d", "f", "d", "f", "d">>,
     <<"x", "x", "d", "d", "d", "f">>,
     <<"d", "d", "o", "d", "d", "d">>,
     <<"x", "x", "x", "x", "x", "d">>}

\* The store requests with many arguments, each with what the filesystem
\* says of the arguments (a flag is never looked up).
ManyArgStores ==
    {[p |-> SP(LsSix, d, None, None), kinds |-> k] : d \in Cwds, k \in KindsOfSix}
    \cup {[p |-> SP(LsFlagSix, d, None, None), kinds |-> <<"x">> \o k]
          : d \in Cwds, k \in KindsOfSix}

\* A call of Database::store_command for a command with many arguments.
\* last records the arguments, what the filesystem said of them, and the
\* FrecentPath rows before the call.
StoreManyArgs ==
    /\ nops < MaxOps
    /\ \E x \in ManyArgStores :
            LET s == store_command(Conn(db, 0), x.p, now, x.kinds)
            IN  /\ db' = s.db
                /\ last' = [op |-> "store_args", ok |-> ~s.err, arg |-> x.p,
                            args |-> parse_command(x.p.cmd).args,
                            kinds |-> x.kinds,
                            before |-> db.frecent_paths]
                /\ passed' = IF s.err THEN passed ELSE passed \cup PassedBy(x.p)
                /\ clean' = (clean /\ ~s.err)
    /\ nops' = nops + 1
    /\ UNCHANGED <<migVars, now, pairs, nfail, fasdVars, taskVars>>

NextArgs == StoreManyArgs \/ Tick

SpecArgs == Init /\ [][NextArgs]_vars

(* --------------------- claims: paths of the arguments ----------------- *)

\* The access_count of (path, path_type) among rows: 0 without a row.
AccessCount(rows, path, path_type) ==
    IF \E r \in rows : r.path = path /\ r.path_type = path_type
    THEN (CHOOSE r \in rows : r.path = path /\ r.path_type = path_type).access_count
    ELSE 0

\* How often the last store_command bumped (path, path_type).
Bumps(path, path_type) ==
    AccessCount(db.frecent_paths, path, path_type)
    - AccessCount(last.before, path, path_type)

\* The number of arguments before position i that are not flags.
NonFlagsBefore(i) ==
    Cardinality({j \in 1..(i - 1) : last.args[j][1] # "-"})

\* The path of the argument at position i (the arguments of the model are
\* relative).
ArgPath(i) == last.arg.cwd \o <<"/">> \o last.args[i]

\* C25 as stated: a store_command bumps (cwd, 'd') once; an argument after
\* the fifth non-flag argument is never bumped, whether or not the earlier
\* ones exist; an argument is bumped only if it exists, as 'd' for a
\* directory and 'f' for a file.
C25_AsStated ==
    (last.op = "store_args" /\ last.ok)
    => /\ Bumps(last.arg.cwd, "d") = 1
       /\ \A i \in 1..Len(last.args) :
            /\ NonFlagsBefore(i) >= 5
               => (Bumps(ArgPath(i), "d") = 0 /\ Bumps(ArgPath(i), "f") = 0)
            /\ \A t \in {"d", "f"} :
                 Bumps(ArgPath(i), t) > 0 => last.kinds[i] = t

(* ---------------------------- the time bucket ------------------------- *)

\* The start times run over the hours from MaxHours before the epoch to
\* MaxHours after it, each at its first, second and last second.
MaxHours == 30

StartTimes ==
    {h * Hour + k : h \in (0 - MaxHours)..MaxHours, k \in {0, 1, Hour - 1}}

\* The time bucket store_command computes for a start time.
TimeBucket ==
    /\ last.op = "input"
    /\ last' = [op |-> "time_bucket", ok |-> TRUE, arg |-> last.arg,
                time_bucket |-> time_bucket_of(last.arg)]
    /\ UNCHANGED <<migVars, db, now, nops, histVars, fasdVars, taskVars>>

NextBucket == TimeBucket

SpecBucket == InitPure(StartTimes) /\ [][NextBucket]_vars

(* -------------------------- claims: time bucket ----------------------- *)

\* C27 as stated: for every integer start_time, negative ones included,
\* time_bucket is floor((start_time mod 86400) / 3600), the hour of the day,
\* and lies in 0..23.
C27_AsStated ==
    last.op = "time_bucket"
    => /\ last.time_bucket = (last.arg % Day) \div Hour
       /\ last.time_bucket \in 0..23

(* --------------------------- the frecency score ----------------------- *)

\* The ranks scored: negative, zero, one hundredth, 1.0 and 2.5.
ScoredRanks == {0 - RankScale, 0, 1, RankScale, (5 * RankScale) \div 2}

\* The times of the last access and of the two queries: around the epoch
\* and a second before, at and after each age threshold.
ScoredTimes ==
    {0 - 1, 0, 1} \cup {th + k : th \in {Hour, Day, Week}, k \in {0 - 1, 0, 1}}

\* A row's rank and last access, and the times of two queries.
ScoreInputs ==
    {[rank |-> r, last_access |-> la, t1 |-> t1, t2 |-> t2] :
        r \in ScoredRanks, la \in {0, 1}, t1 \in ScoredTimes, t2 \in ScoredTimes}

\* frecency_score of one row at two times.
FrecencyScore ==
    /\ last.op = "input"
    /\ last' = [op |-> "frecency_score", ok |-> TRUE, arg |-> last.arg,
                score1 |-> frecency_score(last.arg.rank, last.arg.last_access,
                                          last.arg.t1),
                score2 |-> frecency_score(last.arg.rank, last.arg.last_access,
                                          last.arg.t2)]
    /\ UNCHANGED <<migVars, db, now, nops, histVars, fasdVars, taskVars>>

NextFrecency == FrecencyScore

SpecFrecency == InitPure(ScoreInputs) /\ [][NextFrecency]_vars

(* ------------------------ claims: frecency score ---------------------- *)

\* The age of a last access at time t: 0 for a last access in the future.
AgeAt(t) == IF t > last.arg.last_access THEN t - last.arg.last_access ELSE 0

\* The weight the specification gives an age.
WeightOfAge(age) ==
    IF age < 3600 THEN 6 ELSE IF age < 86400 THEN 4 ELSE IF age < 604800 THEN 2 ELSE 1

\* C26: frecency_score is rank times the weight of the age (6 under an hour,
\* 4 under a day, 2 under a week, 1 from a week on), the age of a last
\* access in the future being 0; for a positive rank the score of the
\* greater age is never the higher one.
C26_ScoreByAge ==
    last.op = "frecency_score"
    => /\ last.score1 = last.arg.rank * WeightOfAge(AgeAt(last.arg.t1))
       /\ last.score2 = last.arg.rank * WeightOfAge(AgeAt(last.arg.t2))
       /\ (last.arg.rank > 0 /\ AgeAt(last.arg.t1) <= AgeAt(last.arg.t2))
          => last.score1 >= last.score2
       /\ last.arg.t1 < last.arg.last_access => last.score1 = 6 * last.arg.rank

\* A positive rank scored at exactly an hour of age and at a last access in
\* the future: 4 times the rank against 6 times.
C26_Witness ==
    /\ last.op = "frecency_score"
    /\ last.arg.rank > 0
    /\ last.arg.t1 - last.arg.last_access = Hour
    /\ last.arg.t2 < last.arg.last_access
    /\ last.score1 = 4 * last.arg.rank
    /\ last.score2 = 6 * last.arg.rank

(* ------------------------------ search requests ----------------------- *)

\* One SearchParams: no directory filter.
SearchFor(pattern, limit) ==
    [pattern |-> pattern, limit |-> limit, dir |-> None]

\* The search requests of the model: a pattern that is in "ls /t" ("s "),
\* one that is in "git co mn" ("co"), one that is in both (" "), one that
\* is in neither ("x"), the first in capitals ("LS") and one with the LIKE
\* wildcard ("l_"); each with limit 1 and with the default limit.
SearchPatterns ==
    {<<"s", " ">>, <<"c", "o">>, <<" ">>, <<"x">>, <<"L", "S">>, <<"l", "_">>}

SearchRequests ==
    {SearchFor(pat, n) : pat \in SearchPatterns, n \in {1, DefaultSearchLimit}}

\* The "search" request: Database::search.
Search ==
    /\ \E p \in SearchRequests :
         \E results \in search(db, p, Hostname, now) :
            last' = [op |-> "search", ok |-> TRUE, arg |-> p, results |-> results]
    /\ UNCHANGED <<migVars, db, now, nops, histVars, fasdVars, taskVars>>

NextSearch == StoreCommand \/ Search \/ Tick

SpecSearch == Init /\ [][NextSearch]_vars

(* ----------------------------- claims: search ------------------------- *)

\* Whether pat occurs in str as a substring.
IsSubstring(pat, str) ==
    \E i \in 0..(Len(str) - Len(pat)) : SubSeq(str, i + 1, i + Len(pat)) = pat

\* The start times of the history of the command cmd on this host.
StartTimesOf(cmd) ==
    {h.start_time : h \in {g \in db.history :
        /\ \E c \in db.commands : c.id = g.command_id /\ c.argv = cmd
        /\ \E pl \in db.places : pl.id = g.place_id /\ pl.host = Hostname}}

\* The commands with history on this host that contain the pattern.
Containing(pattern) ==
    {c.argv : c \in {d \in db.commands :
        StartTimesOf(d.argv) # {} /\ IsSubstring(pattern, d.argv)}}

\* C28 as stated: search returns at most limit results, no command twice,
\* each with a cmd that contains the pattern as a substring, that has
\* history on this host, and with the command's most recent start_time as
\* timestamp; when fewer than limit commands contain the pattern, each of
\* them (the one just ingested among them) is returned.
C28_AsStated ==
    last.op = "search"
    => LET res == last.results
       IN  /\ Len(res) <= last.arg.limit
           /\ \A i, j \in 1..Len(res) : res[i].cmd = res[j].cmd => i = j
           /\ \A i \in 1..Len(res) :
                /\ IsSubstring(last.arg.pattern, res[i].cmd)
                /\ StartTimesOf(res[i].cmd) # {}
                /\ \A t \in StartTimesOf(res[i].cmd) : t <= res[i].timestamp
                /\ res[i].timestamp \in StartTimesOf(res[i].cmd)
           /\ Cardinality(Containing(last.arg.pattern)) < last.arg.limit
              => \A cmd \in Containing(last.arg.pattern) :
                    \E i \in 1..Len(res) : res[i].cmd = cmd

(* --------------------------- ordered substrings ----------------------- *)

\* The paths are the strings of up to MaxPathLen characters.
MaxPathLen == 4

MatchChars == {"a", "b", "A"}

\* The term lists: up to two terms of up to two characters, the empty term
\* included.
MatchTerms == StringsUpTo(MatchChars, 2)

TermLists == {<<>>} \cup {<<t>> : t \in MatchTerms} \cup (MatchTerms \X MatchTerms)

MatchInputs ==
    {[path |-> p, terms |-> ts, case_insensitive |-> ci] :
        p \in StringsUpTo(MatchChars, MaxPathLen), ts \in TermLists, ci \in BOOLEAN}

\* The terms in the opposite order.
Reversed(terms) == [i \in 1..Len(terms) |-> terms[Len(terms) + 1 - i]]

\* matches_ordered_substring of a path and a term list, and of the same
\* path and the terms in the opposite order.
MatchesOrderedSubstring ==
    /\ last.op = "input"
    /\ last' = [op |-> "matches", ok |-> TRUE, arg |-> last.arg,
                matched |-> matches_ordered_substring(
                                last.arg.path, last.arg.terms,
                                last.arg.case_insensitive),
                swapped |-> matches_ordered_substring(
                                last.arg.path, Reversed(last.arg.terms),
                                last.arg.case_insensitive)]
    /\ UNCHANGED <<migVars, db, now, nops, histVars, fasdVars, taskVars>>

NextMatch == MatchesOrderedSubstring

SpecMatch == InitPure(MatchInputs) /\ [][NextMatch]_vars

(* ------------------------ claims: ordered substrings ------------------ *)

\* Whether the terms can be placed in the path of the last call as
\* occurrences in the given order, each starting at or after the end of the
\* previous one; the case is folded when the call was case-insensitive.
Placeable(terms) ==
    LET fold(s) == IF last.arg.case_insensitive THEN to_lowercase(s) ELSE s
        path == fold(last.arg.path)
    IN  \E start \in [1..Len(terms) -> 1..(Len(path) + 1)] :
            \A i \in 1..Len(terms) :
                /\ start[i] + Len(terms[i]) - 1 <= Len(path)
                /\ SubSeq(path, start[i], start[i] + Len(terms[i]) - 1)
                     = fold(terms[i])
                /\ i > 1 => start[i] >= start[i - 1] + Len(terms[i - 1])

\* C30: matches_ordered_substring is true exactly when the terms can be
\* placed in the path in the given order, each starting at or after the end
\* of the previous one (case folded when case_insensitive is set); so two
\* terms that can be placed in one order only do not match in the other.
C30_GreedyIsExistential ==
    last.op = "matches"
    => /\ last.matched <=> Placeable(last.arg.terms)
       /\ last.swapped <=> Placeable(Reversed(last.arg.terms))
       /\ (/\ Len(last.arg.terms) = 2
           /\ Placeable(last.arg.terms)
           /\ ~Placeable(Reversed(last.arg.terms)))
          => (last.matched /\ ~last.swapped)

\* A case-insensitive call with two terms that both occur in the path, the
\* first only with the case folded, matched in the order given and not in
\* the other.
C30_Witness ==
    /\ last.op = "matches"
    /\ last.arg.case_insensitive
    /\ last.arg.path = <<"A", "b", "b">>
    /\ last.arg.terms = <<<<"a", "b">>, <<"b">>>>
    /\ last.matched
    /\ ~last.swapped

(* ------------------------------ fuzzy matches ------------------------- *)

\* The paths and term lists of the ordered substrings, without the case
\* mode: matches_fuzzy always folds the case.
FuzzyInputs ==
    {[path |-> p, terms |-> ts] :
        p \in StringsUpTo(MatchChars, MaxPathLen), ts \in TermLists}

\* matches_fuzzy of a path and a term list.
MatchesFuzzy ==
    /\ last.op = "input"
    /\ last' = [op |-> "fuzzy", ok |-> TRUE, arg |-> last.arg,
                matched |-> matches_fuzzy(last.arg.path, last.arg.terms)]
    /\ UNCHANGED <<migVars, db, now, nops, histVars, fasdVars, taskVars>>

NextFuzzy == MatchesFuzzy

SpecFuzzy == InitPure(FuzzyInputs) /\ [][NextFuzzy]_vars

(* -------------------------- claims: fuzzy matches --------------------- *)

\* The characters of the terms, one term after the other.
RECURSIVE Flattened(_)
Flattened(terms) ==
    IF terms = <<>> THEN <<>> ELSE Head(terms) \o Flattened(Tail(terms))

\* Whether needle is a subsequence of haystack, the case folded.
IsSubsequence(needle, haystack) ==
    \E at \in [1..Len(needle) -> 1..Len(haystack)] :
        /\ \A i \in 1..Len(needle) :
              to_lowercase_char(haystack[at[i]]) = to_lowercase_char(needle[i])
        /\ \A i \in 1..(Len(needle) - 1) : at[i] < at[i + 1]

\* C31: matches_fuzzy is true exactly when the characters of all the terms,
\* one term after the other and lower-cased, are a subsequence of the
\* lower-cased path: the position in the path is kept from one term to the
\* next.
C31_FuzzyIsSubsequence ==
    last.op = "fuzzy"
    => (last.matched <=> IsSubsequence(Flattened(last.arg.terms), last.arg.path))

\* Two terms that are each a subsequence of the path (the first with the
\* case folded) and do not match together, the second occurring only before
\* the first.
C31_Witness ==
    /\ last.op = "fuzzy"
    /\ last.arg.path = <<"b", "A">>
    /\ last.arg.terms = <<<<"a">>, <<"b">>>>
    /\ ~last.matched

(* --------------------------- learnable arguments ---------------------- *)

\* The argument lists hold up to MaxArgs tokens.
MaxArgs == 4

\* A token of 101 characters.
LongToken == [i \in 1..101 |-> "z"]

\* The tokens: the flags that take a value, another flag, two plain
\* tokens and the long one.
ArgTokens == ValueFlags \cup {<<"-", "x">>, <<"x">>, <<"y">>, LongToken}

RECURSIVE TokenLists(_)
TokenLists(n) ==
    IF n = 0 THEN {<<>>}
    ELSE {<<>>} \cup {<<t>> \o l : t \in ArgTokens, l \in TokenLists(n - 1)}

\* The ParsedCommand of "git co" followed by the tokens.
ParsedGitCo(args) ==
    [program |-> <<"g","i","t">>, subcommand |-> Some(<<"c","o">>), args |-> args,
     full |-> join_space(<<<<"g","i","t">>, <<"c","o">>>> \o args)]

\* extract_learnable_args of the command "git co" followed by the tokens.
ExtractLearnableArgs ==
    /\ last.op = "input"
    /\ LET parsed == ParsedGitCo(last.arg)
       IN  last' = [op |-> "learnable", ok |-> TRUE, arg |-> last.arg,
                    args |-> parsed.args,
                    learnable |-> extract_learnable_args(parsed)]
    /\ UNCHANGED <<migVars, db, now, nops, histVars, fasdVars, taskVars>>

NextLearn == ExtractLearnableArgs

SpecLearn == InitPure(TokenLists(MaxArgs)) /\ [][NextLearn]_vars

(* ----------------------- claims: learnable arguments ------------------ *)

\* The positions of the arguments that immediately follow one of flags.
Following(flags) ==
    {i \in 2..Len(last.args) : last.args[i - 1] \in flags}

\* The ways to find the learnable arguments among the arguments, in order.
Placements ==
    {at \in [1..Len(last.learnable) -> 1..Len(last.args)] :
        /\ \A k \in 1..Len(last.learnable) : last.args[at[k]] = last.learnable[k]
        /\ \A k \in 1..(Len(last.learnable) - 1) : at[k] < at[k + 1]}

\* The positions a placement takes.
Taken(at) == {at[k] : k \in 1..Len(last.learnable)}

\* The flags whose value is learned.
LearnedFlags ==
    {<<"-","b">>, <<"-","-","b","r","a","n","c","h">>, <<"-","f">>,
     <<"-","-","f","i","l","e">>}

\* The flags whose value is a message.
DiscardedFlags == {<<"-","m">>, <<"-","-","m","e","s","s","a","g","e">>}

\* C32 as stated: the learnable arguments are arguments in their order,
\* none of them begins with '-', none is the token right after -m or
\* --message, and every token right after -b, --branch, -f or --file is
\* among them.
C32_AsStated ==
    last.op = "learnable"
    => /\ \A k \in 1..Len(last.learnable) : last.learnable[k][1] # "-"
       /\ \E at \in Placements :
            /\ Taken(at) \cap Following(DiscardedFlags) = {}
            /\ Following(LearnedFlags) \subseteq Taken(at)

\* C32 corrected: the learnable arguments are arguments in their order,
\* none of them begins with '-', none is the token right after -m or
\* --message, and every token right after -b, --branch, -f or --file that
\* does not itself begin with '-' is among them, whatever its length.
C32_LearnsFlagValues ==
    last.op = "learnable"
    => /\ \A k \in 1..Len(last.learnable) : last.learnable[k][1] # "-"
       /\ \E at \in Placements :
            /\ Taken(at) \cap Following(DiscardedFlags) = {}
            /\ {i \in Following(LearnedFlags) : last.args[i][1] # "-"}
                 \subseteq Taken(at)

\* "git co -m x -b zz..z": the message x is not learned and the branch
\* name, long as it is, is learned.
C32_Witness ==
    /\ last.op = "learnable"
    /\ last.args = <<<<"-","m">>, <<"x">>, <<"-","b">>, LongToken>>
    /\ last.learnable = <<LongToken>>

(* --------------------------- claims: args digest ---------------------- *)

\* The arguments of the command of a ParsedCommand row, joined by spaces.
JoinedArgsOf(r) ==
    join_space(parse_command(
        (CHOOSE c \in db.commands : c.id = r.command_id).argv).args)

\* C33 as stated: the args digest of every ParsedCommand row is the first
\* 50 characters of the arguments of its command joined by single spaces,
\* and the whole joined string when that is shorter than 50 characters.
C33_AsStated ==
    \A r \in db.parsed_commands :
        (\E c \in db.commands : c.id = r.command_id)
        => r.args_hash
             = Some(IF Len(JoinedArgsOf(r)) >= 50
                    THEN SubSeq(JoinedArgsOf(r), 1, 50)
                    ELSE JoinedArgsOf(r))

(* --------------------- claims: the reads of a predict ----------------- *)

\* Whether a prefix has a program and ends with a space.
ExpectsArguments(prefix) ==
    /\ prefix # <<>>
    /\ prefix[Len(prefix)] = " "
    /\ \E i \in 1..Len(prefix) : ~IsWhitespace(prefix[i])

\* C34 as stated: every predict reads one state of the store: between its
\* reads no write of another task takes effect.
C34_AsStated ==
    \A t \in Tasks :
        tasks[t].req.method = "predict" =>
            \A i, j \in 1..Len(tasks[t].reads) :
                tasks[t].reads[i].ver = tasks[t].reads[j].ver

\* C34 corrected: a predict reads the store at most twice, each time under
\* the mutex and never an older state after a newer one; it reads twice only
\* when its prefix expects arguments and the argument suggestions were
\* empty, and the suggestions it answers with are computed from its last
\* read alone.
C34_AnswerFromLastRead ==
    \A t \in Tasks :
        tasks[t].req.method = "predict" =>
            LET reads == tasks[t].reads
                p == tasks[t].req.params
            IN  /\ Len(reads) <= 2
                /\ \A i \in 1..(Len(reads) - 1) : reads[i].ver <= reads[i + 1].ver
                /\ Len(reads) = 2 => ExpectsArguments(p.prefix)
                /\ tasks[t].pc = "respond" =>
                     /\ Len(reads) >= 1
                     /\ IF Len(reads) = 1 /\ ExpectsArguments(p.prefix)
                        THEN /\ tasks[t].resp.suggestions # <<>>
                             /\ tasks[t].resp.suggestions
                                  \in get_arg_suggestions(reads[1].db, p.prefix,
                                                          p.cwd, p.limit)
                        ELSE tasks[t].resp.suggestions
                               \in predict_with_conn(reads[Len(reads)].db, p,
                                                     Hostname, now)

\* A predict that read twice, with a write of another task between the two
\* reads, and is about to answer.
C34_Witness ==
    \E t \in Tasks :
        /\ tasks[t].req.method = "predict"
        /\ tasks[t].pc = "respond"
        /\ Len(tasks[t].reads) = 2
        /\ tasks[t].reads[1].ver < tasks[t].reads[2].ver
        /\ tasks[t].reads[1].db # tasks[t].reads[2].db

(* ------------------------- a panic under the lock --------------------- *)

\* "ls /t" and "ls -l" have each been run once in "/p" and have failed.
FailedStore(cmd) == [SP(cmd, <<"/","p">>, None, None) EXCEPT !.exit_status = Some(1)]

FailedHistory ==
    store_command(store_command(Conn(EmptyDb, 0), FailedStore(LsT), 0, <<"x">>),
                  FailedStore(LsL), 0, <<"x">>).db

\* The requests of the clients: an import of "/q" with rank -1.0, a predict
\* in "/q" with the failure penalty weight set to 1.0, and the same predict
\* with the default weights.
PanicRequests ==
    {[method |-> "frecent_add",
      params |-> FA(<<"/","q">>, "d", Some(0 - RankScale), None)],
     [method |-> "predict",
      params |-> [PP(<<"l">>, <<"/","q">>, <<>>, DefaultLimit, TRUE)
                    EXCEPT !.weights = Some([DefaultWeights EXCEPT
                                               !.failure_penalty = ScoreScale])]],
     [method |-> "predict",
      params |-> PP(<<"l">>, <<"/","q">>, <<>>, DefaultLimit, TRUE)]}

\* The daemon has opened a file that holds the two failed commands.
InitPanic ==
    /\ InitDaemon
    /\ db = FailedHistory
    /\ schema = run_migrations(Store(NoSchema, EmptyDb), <<>>, 0).sch
    /\ migrated = [runs |-> 0, start |-> 0, before |-> Store(NoSchema, EmptyDb)]
    /\ cache = NewCache(DefaultCacheSize)

\* A connection is accepted and its request read.
AcceptRequest(t) ==
    /\ tasks[t].pc = "idle"
    /\ \A u \in Tasks : u < t => tasks[u].pc # "idle"
    /\ nops < MaxOps
    /\ \E rq \in PanicRequests :
            tasks' = [tasks EXCEPT ![t] =
                        [pc |-> "request", req |-> rq, must |-> returned,
                         reads |-> <<>>, resp |-> <<>>]]
    /\ nops' = nops + 1
    /\ UNCHANGED <<migVars, db, now, last, histVars, fasdVars, mutex, returned, ver>>

\* Database::frecent_add under the lock.
FrecentAddRun(t) ==
    /\ tasks[t].pc = "locked"
    /\ tasks[t].req.method = "frecent_add"
    /\ mutex = t
    /\ LET p == tasks[t].req.params
           s == frecent_add_with_conn(Conn(db, 0), p.path, p.path_type, p.rank,
                                      p.timestamp, now)
       IN  /\ db' = s.db
           /\ tasks' = [tasks EXCEPT ![t].pc = "respond", ![t].resp = [ok |-> ~s.err]]
    /\ ver' = ver + 1
    /\ mutex' = 0
    /\ UNCHANGED <<migVars, now, nops, last, histVars, fasdVars, returned>>

\* Database::predict for a prefix that expects no arguments: the answer of
\* predict_with_conn, or its panic in the sort, which unwinds through the
\* guard and leaves the mutex poisoned (mutex = -1).
PredictRun(t) ==
    /\ tasks[t].pc = "locked"
    /\ tasks[t].req.method = "predict"
    /\ ~expecting_args(tasks[t].req.params.prefix)
    /\ mutex = t
    /\ IF predict_panics(db, tasks[t].req.params, Hostname)
       THEN /\ tasks' = [tasks EXCEPT ![t].pc = "panicked"]
            /\ mutex' = 0 - 1
       ELSE /\ \E suggestions \in predict_with_conn(db, tasks[t].req.params,
                                                    Hostname, now) :
                 tasks' = [tasks EXCEPT ![t].pc = "respond",
                                        ![t].reads = Append(@, View),
                                        ![t].resp = [ok |-> TRUE,
                                                     suggestions |-> suggestions]]
            /\ mutex' = 0
    /\ UNCHANGED <<migVars, db, now, nops, last, histVars, fasdVars, returned, ver>>

\* self.conn.lock().unwrap() on a poisoned mutex: the task panics.
LockPoisoned(t) ==
    /\ tasks[t].pc = "request"
    /\ mutex = 0 - 1
    /\ tasks' = [tasks EXCEPT ![t].pc = "panicked"]
    /\ UNCHANGED <<migVars, db, now, nops, last, histVars, fasdVars, mutex, returned, ver>>

\* The task of a handle_client that panicked has ended: the connection is
\* dropped, no response was written.
TaskEnds(t) ==
    /\ tasks[t].pc = "panicked"
    /\ tasks' = [tasks EXCEPT ![t] = [IdleTask EXCEPT !.resp = <<"none">>]]
    /\ UNCHANGED <<migVars, db, now, nops, last, histVars, fasdVars, mutex, returned, ver>>

\* The steps of the task t after its request was read.
TaskStep(t) ==
    \/ Lock(t)
    \/ LockPoisoned(t)
    \/ FrecentAddRun(t)
    \/ PredictRun(t)
    \/ Respond(t)
    \/ TaskEnds(t)

NextPanic == \E t \in Tasks : AcceptRequest(t) \/ TaskStep(t)

\* Every task that can take a step takes one: the runtime runs every task
\* that is ready, and a lock that stays free is acquired.
SpecPanic ==
    /\ InitPanic
    /\ [][NextPanic]_vars
    /\ \A t \in Tasks : WF_vars(TaskStep(t))

(* ----------------------- claims: requests complete -------------------- *)

\* C35 as stated: every request that has been read is answered: the task
\* that read it gets to write the response.
C35_AsStated ==
    \A t \in Tasks : (tasks[t].pc = "request") ~> (tasks[t].pc = "respond")

(* ------------------- claims: the cut before the scoring ---------------- *)

\* "ll": a third command that the prefix "l" matches.
Ll == <<"l","l">>

\* The store requests of a client whose commands fail in "/p": "ls /t" and
\* "ls -l" exit with 1 in "/p", "ll" succeeds in "/" and in "/p", the first
\* also after "git co mn".
TopStoreParams ==
    {[SP(LsT, <<"/","p">>, None, None) EXCEPT !.exit_status = Some(1)],
     [SP(LsL, <<"/","p">>, None, None) EXCEPT !.exit_status = Some(1)],
     SP(Ll, <<"/">>, Some(GitCoMn), None),
     SP(Ll, <<"/","p">>, None, None)}

\* Its "store" request.
TopStore ==
    /\ nops < MaxOps
    /\ \E p \in TopStoreParams :
            LET s == store_command(Conn(db, 0), p, now, <<"x">>)
            IN  /\ db' = s.db
                /\ last' = [op |-> "store", ok |-> ~s.err, arg |-> p]
    /\ nops' = nops + 1
    /\ UNCHANGED <<migVars, now, histVars, fasdVars, taskVars>>

\* Its "predict" request: the prefix "l" in "/p" after "git co mn", one
\* suggestion asked for.
TopPredict ==
    /\ \E p \in {PP(<<"l">>, <<"/","p">>, <<GitCoMn>>, 1, FALSE)} :
         \E l \in predict_with_conn(db, p, Hostname, now) :
            last' = [op |-> "predict", ok |-> TRUE, arg |-> p, suggestions |-> l,
                     at |-> now]
    /\ UNCHANGED <<migVars, db, now, nops, histVars, fasdVars, taskVars>>

NextTop == TopStore \/ TopPredict \/ Tick

SpecTop == Init /\ [][NextTop]_vars

\* The final scores a row of the main query may get in a predict call
\* (one per result of the n-gram lookups).
FinalScores(row, p, t) ==
    LET w == IF IsSome(p.weights) THEN Unwrap(p.weights) ELSE DefaultWeights
    IN  {suggestion_score(row, ngram_bonus(ng[1], ng[2], row.cmd),
                          frecent_boost(db, p, w), w, t)
         : ng \in ngram_lookups(db, p)}

\* The commands of a list of suggestions or of rows.
CmdsOf(l) == {l[i].cmd : i \in 1..Len(l)}

\* C36: predict returns the true top-limit by final score: no command that
\* matches the prefix on this host and is left out has a strictly higher
\* final score than a command that is returned.
C36_AsStated ==
    (last.op = "predict" /\ "at" \in DOMAIN last)
    => \A r \in main_rows(db, last.arg, Hostname) :
          r.cmd \notin CmdsOf(last.suggestions)
          => \A i \in 1..Len(last.suggestions) :
                \A sc \in FinalScores(r, last.arg, last.at) :
                    sc <= last.suggestions[i].score

\* C36, amended: the suggestions are the top-limit by final score of the
\* 2 * limit commands that come first by (exact_dir_freq, hierarchy_score,
\* last_used): some such cut holds every returned command, and none of its
\* commands that is left out has a strictly higher final score than one
\* that is returned.
C36_TopOfOverfetch ==
    (last.op = "predict" /\ "at" \in DOMAIN last)
    => LET l == last.suggestions
       IN  \E rows \in order_limit(main_rows(db, last.arg, Hostname),
                                   2 * last.arg.limit) :
              /\ CmdsOf(l) \subseteq CmdsOf(rows)
              /\ Len(l) = MinInt(Len(rows), last.arg.limit)
              /\ \A k \in 1..Len(rows) :
                    rows[k].cmd \notin CmdsOf(l)
                    => \A i \in 1..Len(l) :
                          \E sc \in FinalScores(rows[k], last.arg, last.at) :
                              sc <= l[i].score

\* Three commands match the prefix, the one with the highest final score
\* comes last in the order of the main query, which keeps two, and another
\* one is returned.
C36_Witness ==
    /\ last.op = "predict"
    /\ "at" \in DOMAIN last
    /\ Cardinality(main_rows(db, last.arg, Hostname)) = 3
    /\ Len(last.suggestions) = 1
    /\ \E r \in main_rows(db, last.arg, Hostname) :
          /\ r.cmd \notin CmdsOf(last.suggestions)
          /\ \A q \in main_rows(db, last.arg, Hostname) \ {r} :
                key_greater(q.key, r.key)
          /\ \A sc \in FinalScores(r, last.arg, last.at) :
                sc > last.suggestions[1].score

(* ------------------- claims: the row of a frecent_add ------------------ *)

\* The rows of the path and path_type of the last frecent_add.
RowsOfBumped ==
    {r \in db.frecent_paths :
        r.path = last.arg.path /\ r.path_type = last.arg.path_type}

\* C37: after a frecent_add(path, type) that returned successfully, a
\* FrecentPath row of (path, type) exists, whatever the store held before
\* and also when this bump makes the aging step fire.
C37_AsStated ==
    (last.op = "frecent_add" /\ last.ok) => RowsOfBumped # {}

\* C37, amended: the upsert of a successful frecent_add leaves exactly one
\* row of (path, type), and after the call that row exists unless the
\* aging step fired and 0.9 times the rank the upsert gave it is under 1.0.
C37_RowUnlessPruned ==
    (last.op = "frecent_add" /\ last.ok)
    => /\ Cardinality(last.upserted) = 1
       /\ Cardinality(RowsOfBumped) <= 1
       /\ \A u \in last.upserted :
             RowsOfBumped = {}
             <=> (last.fired /\ 9 * u.rank < 10 * RankScale)

\* A bump of a path the store did not hold takes the sum of its path_type
\* over 2000: the aging step fires and prunes the row of rank 1.0 that the
\* bump has just inserted, while older rows stay.
C37_Witness ==
    /\ last.op = "frecent_add"
    /\ last.ok
    /\ last.arg.rank = None
    /\ last.existing = {}
    /\ last.fired
    /\ RowsOfBumped = {}
    /\ RowsOfType(last.arg.path_type) # {}

(* ---------------------- claims: bigrams and trigrams ------------------- *)

\* The Trigram rows (*, prev1, cur).
TrigramsOver(prev1, cur) ==
    {g \in db.ngrams_3 : g.prev1_command_id = prev1 /\ g.command_id = cur}

\* C38: in every reachable state every Trigram row (prev2, prev1, cur) has a
\* Bigram row (prev1, cur), and the frequencies of the Trigram rows
\* (*, prev1, cur) sum to at most the frequency of Bigram (prev1, cur).
C38_AsStated ==
    \A t \in db.ngrams_3 :
        \E b \in db.ngrams_2 :
            /\ b.prev_command_id = t.prev1_command_id
            /\ b.command_id = t.command_id
            /\ SumFrequency(TrigramsOver(t.prev1_command_id, t.command_id))
                   <= b.frequency

(* ---------------------- claims: the frame of a delete ------------------ *)

\* "git co xy": the program and subcommand of "git co mn", another argument.
GitCoXy == <<"g","i","t"," ","c","o"," ","x","y">>

\* The store requests of a client with two commands of one program and
\* subcommand: each of "git co mn", "git co xy" and "ls /t" alone, and
\* "git co xy" after "git co mn" after "ls /t".
FrameStoreParams ==
    {SP(GitCoMn, <<"/","p">>, None, None),
     SP(GitCoXy, <<"/","p">>, None, None),
     SP(LsT, <<"/","p">>, None, None),
     SP(GitCoXy, <<"/","p">>, Some(GitCoMn), Some(LsT))}

\* Its "store" request.
FrameStore ==
    /\ nops < MaxOps
    /\ \E p \in FrameStoreParams :
         \E kinds \in KindsOf(p.cmd) :
            LET s == store_command(Conn(db, 0), p, now, kinds)
            IN  /\ db' = s.db
                /\ last' = [op |-> "store", ok |-> ~s.err, arg |-> p]
    /\ nops' = nops + 1
    /\ UNCHANGED <<migVars, now, histVars, fasdVars, taskVars>>

\* Its "delete" request.
FrameDelete ==
    /\ nops < MaxOps
    /\ \E cmd \in {GitCoMn, GitCoXy, LsT} :
            LET s == delete_command(Conn(db, 0), cmd)
            IN  /\ db' = s.db
                /\ last' = [op |-> "delete", ok |-> ~s.err,
                            arg |-> [cmd |-> cmd, id |-> command_id_of(db, cmd)],
                            before |-> db]
    /\ nops' = nops + 1
    /\ UNCHANGED <<migVars, now, histVars, fasdVars, taskVars>>

NextFrame == FrameStore \/ FrameDelete

SpecFrame == Init /\ [][NextFrame]_vars

\* Whether the last request was a delete_command that succeeded, in a
\* specification that records the store it ran on.
Deleted == last.op = "delete" /\ last.ok /\ "before" \in DOMAIN last

\* Whether an ArgPattern row holds an argument of command cmd.
LearnedBy(r, cmd) ==
    LET parsed == parse_command(cmd)
    IN  /\ r.program = parsed.program
        /\ r.subcommand = parsed.subcommand
        /\ \E i \in 1..Len(parsed.args) : parsed.args[i] = r.arg_value

\* Whether a row of the n-gram tables names the command of id.
Involves(g, id) ==
    \/ g.command_id = id
    \/ "prev_command_id" \in DOMAIN g /\ g.prev_command_id = id
    \/ "prev1_command_id" \in DOMAIN g
       /\ (g.prev1_command_id = id \/ g.prev2_command_id = id)

\* What a delete_command leaves of the tables other than arg_patterns: the
\* rows that do not name the deleted command, and all places and paths.
OtherTablesKept ==
    /\ db.commands = {c \in last.before.commands : c.id # last.arg.id}
    /\ db.history = {h \in last.before.history : h.command_id # last.arg.id}
    /\ db.ngrams_2 = {g \in last.before.ngrams_2 : ~Involves(g, last.arg.id)}
    /\ db.ngrams_3 = {g \in last.before.ngrams_3 : ~Involves(g, last.arg.id)}
    /\ db.parsed_commands =
           {r \in last.before.parsed_commands : r.command_id # last.arg.id}
    /\ db.places = last.before.places
    /\ db.frecent_paths = last.before.frecent_paths

\* C39: delete_command(c) changes only data that belongs to c: the rows of
\* the other tables that do not involve c, all Place and FrecentPath rows,
\* and the ArgPattern rows learned from other commands, those of the program
\* and subcommand of c included, are unchanged.
C39_AsStated ==
    Deleted
    => /\ OtherTablesKept
       /\ \A r \in last.before.arg_patterns :
             (\E c \in last.before.commands :
                 c.argv # last.arg.cmd /\ LearnedBy(r, c.argv))
             => r \in db.arg_patterns

\* C39, amended: delete_command(c) leaves the rows of the other tables that
\* do not involve c and all Place and FrecentPath rows unchanged; of the
\* ArgPattern rows it deletes all those of the program and subcommand of c
\* when c has a subcommand, whichever command they were learned from, and
\* none otherwise.
C39_FrameOfDelete ==
    Deleted
    => /\ OtherTablesKept
       /\ LET parsed == parse_command(last.arg.cmd)
          IN  db.arg_patterns =
                  IF IsSome(parsed.subcommand)
                  THEN {r \in last.before.arg_patterns :
                           ~(r.program = parsed.program
                             /\ r.subcommand = parsed.subcommand)}
                  ELSE last.before.arg_patterns

\* "git co mn" has been deleted from a store that also held "git co xy"
\* and "ls /t": the ArgPattern row learned from "git co xy" is gone, its
\* Command and History rows and the ArgPattern row of "ls /t" are there.
C39_Witness ==
    /\ Deleted
    /\ last.arg.cmd = GitCoMn
    /\ \E r \in last.before.arg_patterns :
          LearnedBy(r, GitCoXy) /\ r \notin db.arg_patterns
    /\ \E r \in db.arg_patterns : LearnedBy(r, LsT)
    /\ \E c \in db.commands : c.argv = GitCoXy
    /\ \E h \in db.history : h.command_id = command_id_of(db, GitCoXy)
    /\ db.parsed_commands # {}

(* -------------------------- the prediction cache ----------------------- *)

\* The largest max_size of a cache, the number of insert calls, and the
\* largest reading of the monotonic clock.
MaxCacheSize == 2
MaxInserts == 4
MaxInstant == 3

\* The keys of the inserts.
CacheKeys == {<<"a">>, <<"b">>, <<"c">>}

\* Faulty variant: an insert that never evicts.
cache_insert_no_eviction(entries, max_size, key, t) ==
    {[entries |-> {e \in entries : e.key # key}
                  \cup {[key |-> key, timestamp |-> t]},
      evicted |-> None]}

\* PredictionCache::insert at the clock reading t: what it may leave in
\* entries, with the entry it evicted.  min_by_key gives one of the entries
\* of the least timestamp, whichever the HashMap iterates over first.
cache_insert(entries, max_size, key, t) ==
    LET oldest == IF Cardinality(entries) >= max_size
                  THEN {Some(e) : e \in {x \in entries :
                                           \A y \in entries :
                                               x.timestamp <= y.timestamp}}
                  ELSE {}
        evictions == IF oldest = {} THEN {None} ELSE oldest
    IN  {[entries |-> {e \in entries :
                          /\ e.key # key
                          /\ (IsSome(ev) => e.key # Unwrap(ev).key)}
                      \cup {[key |-> key, timestamp |-> t]},
          evicted |-> ev]
         : ev \in evictions}

\* A cache of any max_size from 1 on has been made.
InitCache ==
    /\ InitDaemon
    /\ db = EmptyDb
    /\ schema = run_migrations(Store(NoSchema, EmptyDb), <<>>, 0).sch
    /\ migrated = [runs |-> 0, start |-> 0, before |-> Store(NoSchema, EmptyDb)]
    /\ cache \in {NewCache(n) : n \in 1..MaxCacheSize}

\* One call of PredictionCache::insert; Instant::now() never goes back.
CacheInsert ==
    /\ nops < MaxInserts
    /\ \E key \in CacheKeys :
         \E t \in {i \in {cache.instant, cache.instant + 1} : i <= MaxInstant} :
           \E r \in cache_insert(cache.entries, cache.max_size, key, t) :
              /\ cache' = [cache EXCEPT !.entries = r.entries, !.instant = t]
              /\ last' = [op |-> "cache_insert", ok |-> TRUE, arg |-> key,
                          at |-> t, evicted |-> r.evicted,
                          before |-> cache.entries]
    /\ nops' = nops + 1
    /\ UNCHANGED <<schema, migrated, db, now, histVars, fasdVars, taskVars>>

NextCache == CacheInsert

SpecCache == InitCache /\ [][NextCache]_vars

\* C40: after any sequence of inserts on a cache with max_size >= 1 the
\* cache holds at most max_size entries, one per key, and the key inserted
\* last is present; an insert evicts exactly when the cache is at capacity,
\* and the entry it evicts is one of the oldest insertion time.
C40_CacheBounded ==
    /\ Cardinality(cache.entries) <= cache.max_size
    /\ \A e, f \in cache.entries : e.key = f.key => e = f
    /\ last.op = "cache_insert"
       => /\ [key |-> last.arg, timestamp |-> last.at] \in cache.entries
          /\ IsSome(last.evicted) <=> Cardinality(last.before) >= cache.max_size
          /\ IsSome(last.evicted)
             => /\ Unwrap(last.evicted) \in last.before
                /\ \A e \in last.before :
                      Unwrap(last.evicted).timestamp <= e.timestamp

\* A full cache of two entries inserted at different times has taken a third
\* key at a later time: the older entry is gone, the newer one is kept.
C40_Witness ==
    /\ last.op = "cache_insert"
    /\ cache.max_size = 2
    /\ Cardinality(last.before) = 2
    /\ \A e \in last.before : e.key # last.arg /\ e.timestamp < last.at
    /\ IsSome(last.evicted)
    /\ \E e \in last.before :
          /\ e.timestamp > Unwrap(last.evicted).timestamp
          /\ e \in cache.entries
    /\ Cardinality(cache.entries) = 2
====
